---- MODULE Spec2Model ----
(***************************************************************************)
(* Model of the title-reconciliation pipeline of MediaTrend-Scraper:       *)
(* worker.process_media_list together with the resolver functions          *)
(* (worker.tmdb_search, worker.tmdb_get_tvdb_id), the target connectors    *)
(* (targets/radarr.py, targets/sonarr.py) and the shared HTTP helper       *)
(* (utils/network.py).  One invocation of process_media_list is a run; the *)
(* same job may be invoked again after a run has ended.  Every external    *)
(* answer (target, metadata API, source adapter) is chosen                 *)
(* nondeterministically among the answers the code distinguishes.          *)
(* Two parts of a run are also modelled on their own, in more detail: the  *)
(* year of a movie submission (SpecYear) and one call of a source adapter, *)
(* sources/netflix.py and sources/flixpatrol.py (SpecAdapter).             *)
(* Around the runs, the service is modelled: the runs that scheduler.py,   *)
(* web/app.py and the menu of worker.py start, with the settings           *)
(* dictionary and the HTTP session they share (SpecService); the mapping   *)
(* of a job key to a call of the pipeline (SpecJob); the settings file     *)
(* under environment overrides (SpecSettings); and the login guard of      *)
(* web/app.py over time (SpecLogin) and with two requests inside it at     *)
(* the same time (SpecRace).  Further parts: the jobs the scheduler holds  *)
(* for a changing configuration (SpecSched), two runs of different job     *)
(* keys on one target, each with its own index (SpecConc), and the log     *)
(* buffer of the dashboard (SpecLog).                                      *)
(***************************************************************************)
EXTENDS Integers, Sequences, FiniteSets, TLC

VARIABLES
    run,            \* number of invocations of process_media_list so far
    pc,             \* position of the current invocation
    media_type,     \* "movie" | "series": MediaType of the job
    config,         \* the settings dictionary handed to the run
    library,        \* state of the target systems: target name -> set of ids
    existing_ids,   \* worker.py:83 the keys of the existing_ids dict
    ci,             \* index of the next entry of countries to scrape
    all_titles,     \* worker.py:93 title -> number of entries held for it
    pending,        \* entries the loop of worker.py:104 has still to visit
    added_count,    \* worker.py:103
    last,           \* what the latest iteration of the loop body did
    added_ids,      \* id -> successful add calls for it in this run
    net,            \* calls of this run: listing, adapter, metadata search
    called,         \* the other calls made in this run: "xref", "lookup", "post"
    exc,            \* where an exception left process_media_list ("" = none)
    index0,         \* existing_ids as built by the listing of this run
    lib0,           \* the library of the relevant target when the run started
    listed,         \* TRUE when the listing of this run returned the library
    prev_titles,    \* the titles the previous run scraped, until compared
    same,           \* TRUE when this run scraped the titles of the previous run
    report,         \* the counts this run has logged: name of count -> value
    contacted,      \* the target systems this run has sent a request to
    \* the year of a movie submission, worker.py:119-123 and radarr.py:48-75
    release_date,   \* the release_date entry of the metadata match
    year_pc,        \* "off" | "match" | "computed" | "built" | "raised"
    year,           \* worker.py:121
    payload,        \* radarr.py:60-73: the fields of the POST body
    \* one call of a source adapter, sources/netflix.py and flixpatrol.py
    adapter,        \* "netflix" (static HTML) | "flixpatrol" (browser)
    country_code,   \* the country code the adapter is called with
    a_pc,           \* position of the adapter call
    slug,           \* the URL slug the code was translated to ("" = none)
    fetches,        \* page fetches made: AsyncClient.get or driver.get
    driver,         \* the browser session: "none" | "open" | "quit"
    html,           \* what the fetch function hands back
    a_result,       \* the titles the adapter returned
    seen,           \* the conditions the call has met
    \* the service around the runs: scheduler.py, web/app.py, worker.py CLI
    mode,           \* "web": server and scheduler | "cli": worker.show_run_menu
    heap,           \* the settings dictionaries created so far, by identity
    service_config, \* scheduler_service.config: the index of one in heap
    tasks,          \* the runs started so far: slot -> run
    http_session,   \* AsyncClient._session: sessions made, whether one is live
    run_all,        \* the answer to POST /api/run-all ("" = none asked)
    \* one job key on its way to an invocation, scheduler.py:41-73, :109-112
    job_key,        \* the key, as its words and "_" characters in order
    job_pc,         \* "off" | "key" | "created" | "invoked" | "raised"
    job_func,       \* what _create_job_func returned
    invocation,     \* the call of process_media_list the job function made
    \* settings file, environment and login guard: settings.py, web/app.py
    settings_file,  \* the content of the settings file
    environ,        \* os.environ: the MEDIATREND_ variables ("" = not set)
    app_config,     \* the global config of web/app.py
    entered,        \* the values the user has given for the overridable keys
    LOGIN_ATTEMPTS, \* app.py:60: IP -> times of the failed logins on record
    now,            \* datetime.now(), in minutes
    response,       \* the answer to the latest request that passed check_auth
    \* the jobs of the scheduler, scheduler.py:16-39 and :87-93
    jobs_config,    \* config["scheduler"]["jobs"]: job key -> enabled, time
    scheduled,      \* the ids of the jobs the scheduler holds, in order
    setups,         \* calls of _setup_jobs so far
    \* two runs of different job keys that feed one target
    job_runs,       \* platform -> the locals of its process_media_list call
    target_library, \* the identifiers the target holds
    successes,      \* identifier -> add calls of either run that succeeded
    last_step,      \* the outcome of the latest loop iteration of a run
    shared_type,    \* the media type of both job keys
    \* requests inside check_auth at the same time, app.py:91-131
    in_flight,      \* worker thread -> the IP whose lock check it passed
    remaining,      \* the attempts remaining that the latest failure logged
    \* the log buffer of the dashboard, app.py:38-46 and :176-179
    LOG_BUFFER,     \* the messages held, oldest first
    logged,         \* calls of web_logger so far; the nth message is n
    cleared_at      \* the value of logged at the latest clear_logs

pipeline_vars ==
    <<run, pc, media_type, config, library, existing_ids, ci, all_titles,
      pending, added_count, last, added_ids, net, called,
      exc, index0, lib0, listed, prev_titles, same, report, contacted>>

year_vars == <<release_date, year_pc, year, payload>>

adapter_vars ==
    <<adapter, country_code, a_pc, slug, fetches, driver, html, a_result,
      seen>>

service_vars == <<mode, heap, service_config, tasks, http_session, run_all>>

job_vars == <<job_key, job_pc, job_func, invocation>>

auth_vars ==
    <<settings_file, environ, app_config, entered, LOGIN_ATTEMPTS, now,
      response>>

sched_vars == <<jobs_config, scheduled, setups>>

\* The components of the later sections
conc_vars ==
    <<job_runs, target_library, successes, last_step, shared_type>>

race_vars == <<in_flight, remaining>>

log_vars == <<LOG_BUFFER, logged, cleared_at>>

more_vars == <<sched_vars, conc_vars, race_vars, log_vars>>

\* The components around the pipeline and its adapters
web_vars == <<service_vars, job_vars, auth_vars, more_vars>>

\* What the steps of process_media_list leave alone
outside_pipeline == <<year_vars, adapter_vars, web_vars>>

vars == <<pipeline_vars, outside_pipeline>>

----------------------------------------------------------------------------
(* Bounds of the model *)

MaxRuns == 2        \* invocations of the same job in a row
MaxList == 2        \* longest title list one adapter call returns
NumIds == 2         \* identifiers 1..NumIds in either id namespace
MaxDate == 5        \* longest release_date string, in characters
MaxBlocks == 2      \* most lists (Netflix) or cards (FlixPatrol) on a page
MaxTasks == 2       \* runs started while the service is up
MaxUpdates == 1     \* POST /api/settings requests while the service is up
MaxKey == 3         \* longest job key, in words and "_" characters
MaxTicks == 4       \* steps of the clock while requests are looked at
TickMinutes == 5    \* minutes between two readings of the clock
MaxTime == 4        \* longest time string of a job, in characters
MaxSetups == 2      \* calls of _setup_jobs: construction, then reloads
MaxLogs == 102      \* calls of web_logger while the buffer is looked at

\* app.py:61-62
MAX_FAILED_ATTEMPTS == 5
LOCKOUT_DURATION == 15

Titles == {"Alpha", "Beta", "Gamma"}
Ids == 1..NumIds

\* Sequences over S of length at most n
SeqUpTo(S, n) == UNION {[1..k -> S] : k \in 0..n}

Range(s) == {s[i] : i \in 1..Len(s)}

----------------------------------------------------------------------------
(* Configuration: the values the run reads *)

CountryLists == {<<>>, <<"US", "DE">>}

Configs ==
    [general : [tmdb_api_key : {"", "tmdb-key"}, countries : CountryLists],
     radarr  : [api_key : {"", "radarr-key"}],
     sonarr  : [api_key : {"", "sonarr-key"}]]

\* worker.py:67 and :76
target_name(mt) == IF mt = "movie" THEN "radarr" ELSE "sonarr"

target_cfg(cfg, mt) == IF mt = "movie" THEN cfg.radarr ELSE cfg.sonarr

\* validate without the check of the target key (worker.py:77-79 dropped)
validate_tmdb_only(cfg, mt) ==
    cfg.general.tmdb_api_key # ""

\* worker.py:70-79: TRUE when the run passes the checks
validate(cfg, mt) ==
    /\ cfg.general.tmdb_api_key # ""
    /\ target_cfg(cfg, mt).api_key # ""

----------------------------------------------------------------------------
(* HTTP answers as AsyncClient.get / AsyncClient.post hand them back:      *)
(* "error": exception or error status, the helper returns None;            *)
(* "text" : a body whose Content-Type is not JSON, returned as a string;   *)
(* "json" : the parsed JSON body.                                          *)

ListResponses == {[kind |-> "error"], [kind |-> "text"], [kind |-> "json"]}

\* The first entry of "results" as the search endpoint may send it: a JSON
\* object with an id (0: none) and a release_date, or a value that is no
\* object (a string, a number).  release_date is "plain" when
\* worker.py:120-121 computes a year from it and "odd" when it raises on it
\* (see ExtractYear)
SearchResults ==
    {[isdict |-> TRUE, id |-> i, release_date |-> rd] :
        i \in 0..NumIds, rd \in {"plain", "odd"}}
    \cup {[isdict |-> FALSE, id |-> 0, release_date |-> "plain"]}

SearchResponses ==
    {[kind |-> "error", results |-> <<>>], [kind |-> "text", results |-> <<>>]}
    \cup {[kind |-> "json", results |-> r] :
            r \in {<<>>} \cup {<<m>> : m \in SearchResults}}

XrefResponses ==
    {[kind |-> "error", tvdb_id |-> 0], [kind |-> "text", tvdb_id |-> 0]}
    \cup {[kind |-> "json", tvdb_id |-> i] : i \in 0..NumIds}

LookupResponses ==
    {[kind |-> "error", n |-> 0], [kind |-> "text", n |-> 0],
     [kind |-> "json", n |-> 0], [kind |-> "json", n |-> 1]}

PostResponses ==
    {[kind |-> "error", id |-> 0], [kind |-> "text", id |-> 0],
     [kind |-> "json", id |-> 0], [kind |-> "json", id |-> 1]}

\* What a source adapter call does: it returns a list of titles, or raises
AdapterOutcomes ==
    {[kind |-> "raise", titles |-> <<>>]}
    \cup {[kind |-> "titles", titles |-> s] : s \in SeqUpTo(Titles, MaxList)}

----------------------------------------------------------------------------
(* Target connectors *)

\* radarr_lookup_existing keyed by a field the records do not carry: the
\* listing succeeds but no tmdb id becomes a key
radarr_lookup_existing_unkeyed(resp, lib) ==
    IF resp.kind = "error" THEN [exc |-> FALSE, ids |-> {}, listed |-> FALSE]
    ELSE IF resp.kind = "text" THEN [exc |-> TRUE, ids |-> {}, listed |-> FALSE]
    ELSE [exc |-> FALSE, ids |-> {}, listed |-> TRUE]

\* radarr.py:43-46: None (error) gives {}; a string body is iterated
\* character by character and m.get raises; a JSON list gives its ids
radarr_lookup_existing(resp, lib) ==
    IF resp.kind = "error" THEN [exc |-> FALSE, ids |-> {}, listed |-> FALSE]
    ELSE IF resp.kind = "text" THEN [exc |-> TRUE, ids |-> {}, listed |-> FALSE]
    ELSE [exc |-> FALSE, ids |-> lib, listed |-> TRUE]

\* sonarr_lookup_existing that answers a failed listing with the library as
\* it is, as if an earlier listing had been kept
sonarr_lookup_existing_kept(resp, lib) ==
    IF resp.kind = "error" THEN [exc |-> FALSE, ids |-> lib, listed |-> FALSE]
    ELSE IF resp.kind = "text" THEN [exc |-> TRUE, ids |-> {}, listed |-> FALSE]
    ELSE [exc |-> FALSE, ids |-> lib, listed |-> TRUE]

\* sonarr.py:43-46
sonarr_lookup_existing(resp, lib) ==
    IF resp.kind = "error" THEN [exc |-> FALSE, ids |-> {}, listed |-> FALSE]
    ELSE IF resp.kind = "text" THEN [exc |-> TRUE, ids |-> {}, listed |-> FALSE]
    ELSE [exc |-> FALSE, ids |-> lib, listed |-> TRUE]

\* What the POST of an add call answered, as the connector sees it:
\* nothing (None), a string, an object without an id, an object with an id
PostAnswer(pr) ==
    IF pr.kind = "error" THEN "none"
    ELSE IF pr.kind = "text" THEN "text"
    ELSE IF pr.id = 0 THEN "noid" ELSE "id"

\* radarr_add_movie that sends the POST again when the first one failed
radarr_add_movie_retry(pr) ==
    [calls |-> IF pr.kind = "json" /\ pr.id # 0 THEN <<"post">>
               ELSE <<"post", "post">>,
     lookup |-> "-",
     exc |-> pr.kind = "text",
     ret |-> pr.kind = "json" /\ pr.id # 0,
     post |-> PostAnswer(pr)]

\* radarr.py:48-83: one POST; success iff the response carries an id;
\* response.get on a string body raises
radarr_add_movie(pr) ==
    [calls |-> <<"post">>,
     lookup |-> "-",
     exc |-> pr.kind = "text",
     ret |-> pr.kind = "json" /\ pr.id # 0,
     post |-> PostAnswer(pr)]

\* sonarr.py:48-65: the first record of the lookup, or None; indexing a
\* string body yields a character, on which .get raises in the caller
sonarr_lookup_series(lr) ==
    [found |-> lr.kind = "text" \/ (lr.kind = "json" /\ lr.n > 0),
     isdict |-> lr.kind = "json",
     answer |-> IF lr.kind = "error" THEN "none"
                ELSE IF lr.kind = "text" THEN "malformed"
                ELSE IF lr.n = 0 THEN "empty" ELSE "records"]

\* sonarr_add_series without the early return of sonarr.py:76-78
sonarr_add_series_unchecked(lr, pr) ==
    LET series_data == sonarr_lookup_series(lr) IN
    [calls |-> <<"lookup", "post">>, lookup |-> series_data.answer,
     exc |-> pr.kind = "text",
     ret |-> pr.kind = "json" /\ pr.id # 0,
     post |-> PostAnswer(pr)]

\* sonarr.py:67-100: lookup first; POST only with the looked-up record
sonarr_add_series(lr, pr) ==
    LET series_data == sonarr_lookup_series(lr) IN
    IF ~series_data.found
    THEN [calls |-> <<"lookup">>, lookup |-> series_data.answer,
          exc |-> FALSE, ret |-> FALSE, post |-> "-"]
    ELSE IF ~series_data.isdict
    THEN [calls |-> <<"lookup">>, lookup |-> series_data.answer,
          exc |-> TRUE, ret |-> FALSE, post |-> "-"]
    ELSE [calls |-> <<"lookup", "post">>, lookup |-> series_data.answer,
          exc |-> pr.kind = "text",
          ret |-> pr.kind = "json" /\ pr.id # 0,
          post |-> PostAnswer(pr)]

----------------------------------------------------------------------------
(* Metadata resolver.  A match is the first result of the search; id 0     *)
(* stands for a missing or zero id, which the caller treats alike          *)
(* (worker.py:107, :130).                                                  *)

NoMatch ==
    [present |-> FALSE, isdict |-> TRUE, id |-> 0, release_date |-> "plain"]

\* worker.py:17-33: the first result, or None; every exception is caught
tmdb_search(api_key, sr) ==
    IF api_key = "" THEN NoMatch
    ELSE IF sr.kind = "json" /\ Len(sr.results) > 0
         THEN [present |-> TRUE, isdict |-> sr.results[1].isdict,
               id |-> sr.results[1].id,
               release_date |-> sr.results[1].release_date]
         ELSE NoMatch

\* worker.py:35-48: the tvdb id, or None (0); every exception is caught
tmdb_get_tvdb_id(api_key, xr) ==
    IF api_key = "" THEN 0
    ELSE IF xr.kind = "json" /\ xr.tvdb_id # 0 THEN xr.tvdb_id ELSE 0

----------------------------------------------------------------------------
(* The loop body of process_media_list, worker.py:104-140 *)

\* in_index that never finds the id
in_index_never(id, existing) == FALSE

\* worker.py:115 and :134: membership test on the existing_ids dict
in_index(id, existing) == id \in existing

\* index_after_add without the insertion of worker.py:125 / :140
index_after_add_no_insert(existing, id, ok) == existing

\* index_after_add that inserts the id whatever the add call returned
index_after_add_any(existing, id, ok) ==
    IF id # 0 THEN existing \cup {id} ELSE existing

\* worker.py:123-125 and :138-140: the id is inserted when the add succeeded
index_after_add(existing, id, ok) ==
    IF ok THEN existing \cup {id} ELSE existing

\* The outcome of an add call, as the loop body sees it
Disposition(add) ==
    IF add.exc THEN "raised" ELSE IF add.ret THEN "added" ELSE "failed"

\* worker.py:114-125; the year is computed between the index check and the
\* add call, outside any try block
movie_branch(existing, tmdb_id, release_class, pr) ==
    IF in_index(tmdb_id, existing)
    THEN [target |-> tmdb_id, xref |-> "-", lookup |-> "-", calls |-> <<>>,
          disp |-> "skipped", exc |-> FALSE, ok |-> FALSE, post |-> "-"]
    ELSE IF release_class = "odd"
    THEN [target |-> tmdb_id, xref |-> "-", lookup |-> "-", calls |-> <<>>,
          disp |-> "raised", exc |-> TRUE, ok |-> FALSE, post |-> "-"]
    ELSE LET add == radarr_add_movie(pr) IN
         [target |-> tmdb_id, xref |-> "-", lookup |-> add.lookup,
          calls |-> add.calls, disp |-> Disposition(add), exc |-> add.exc,
          ok |-> add.ret,
          post |-> add.post]

\* What the cross-reference endpoint answered: a tvdb id, or none
XrefAnswer(xr) ==
    IF xr.kind = "json" /\ xr.tvdb_id # 0 THEN "found" ELSE "none"

\* series_branch without the return on a missing tvdb id (worker.py:130-132)
series_branch_no_tvdb_guard(existing, tmdb_key, tmdb_id, xr, lr, pr) ==
    LET tvdb_id == tmdb_get_tvdb_id(tmdb_key, xr) IN
    IF tvdb_id # 0 /\ in_index(tvdb_id, existing)
    THEN [target |-> tvdb_id, xref |-> XrefAnswer(xr), lookup |-> "-",
          calls |-> <<"xref">>, disp |-> "skipped", exc |-> FALSE,
          ok |-> FALSE, post |-> "-"]
    ELSE LET add == sonarr_add_series(lr, pr) IN
         [target |-> tvdb_id, xref |-> XrefAnswer(xr), lookup |-> add.lookup,
          calls |-> <<"xref">> \o add.calls,
          disp |-> Disposition(add), exc |-> add.exc, ok |-> add.ret,
          post |-> add.post]

\* series_branch with a first index check under the tmdb id, before the
\* cross-reference lookup
series_branch_precheck(existing, tmdb_key, tmdb_id, xr, lr, pr) ==
    LET tvdb_id == tmdb_get_tvdb_id(tmdb_key, xr) IN
    IF in_index(tmdb_id, existing)
    THEN [target |-> 0, xref |-> "-", lookup |-> "-", calls |-> <<>>,
          disp |-> "skipped", exc |-> FALSE, ok |-> FALSE, post |-> "-"]
    ELSE IF tvdb_id = 0
    THEN [target |-> 0, xref |-> XrefAnswer(xr), lookup |-> "-",
          calls |-> <<"xref">>, disp |-> "unmatched", exc |-> FALSE,
          ok |-> FALSE, post |-> "-"]
    ELSE IF in_index(tvdb_id, existing)
    THEN [target |-> tvdb_id, xref |-> XrefAnswer(xr), lookup |-> "-",
          calls |-> <<"xref">>, disp |-> "skipped", exc |-> FALSE,
          ok |-> FALSE, post |-> "-"]
    ELSE LET add == sonarr_add_series(lr, pr) IN
         [target |-> tvdb_id, xref |-> XrefAnswer(xr), lookup |-> add.lookup,
          calls |-> <<"xref">> \o add.calls,
          disp |-> Disposition(add), exc |-> add.exc, ok |-> add.ret,
          post |-> add.post]

\* worker.py:127-140
series_branch(existing, tmdb_key, tmdb_id, xr, lr, pr) ==
    LET tvdb_id == tmdb_get_tvdb_id(tmdb_key, xr) IN
    IF tvdb_id = 0
    THEN [target |-> 0, xref |-> XrefAnswer(xr), lookup |-> "-",
          calls |-> <<"xref">>, disp |-> "unmatched", exc |-> FALSE,
          ok |-> FALSE, post |-> "-"]
    ELSE IF in_index(tvdb_id, existing)
    THEN [target |-> tvdb_id, xref |-> XrefAnswer(xr), lookup |-> "-",
          calls |-> <<"xref">>, disp |-> "skipped", exc |-> FALSE,
          ok |-> FALSE, post |-> "-"]
    ELSE LET add == sonarr_add_series(lr, pr) IN
         [target |-> tvdb_id, xref |-> XrefAnswer(xr), lookup |-> add.lookup,
          calls |-> <<"xref">> \o add.calls,
          disp |-> Disposition(add), exc |-> add.exc, ok |-> add.ret,
          post |-> add.post]

\* The target systems an iteration sent a request to: the movie branch
\* calls radarr_add_movie (worker.py:123), the series branch
\* sonarr_add_series (worker.py:138)
systems_called(mt, calls) ==
    IF Range(calls) \cap {"lookup", "post"} = {} THEN {}
    ELSE IF mt = "movie" THEN {"radarr"} ELSE {"sonarr"}

\* listing_targets that lists both target systems
listing_targets_both(mt) == {"radarr", "sonarr"}

\* worker.py:84-87: the target systems whose library is listed
listing_targets(mt) == IF mt = "movie" THEN {"radarr"} ELSE {"sonarr"}

\* worker.py:105-140: one iteration for one title; tmdb_match.get on a
\* match that is no object raises at worker.py:107
loop_body(existing, mt, tmdb_key, sr, xr, lr, pr) ==
    LET tmdb_match == tmdb_search(tmdb_key, sr) IN
    IF ~tmdb_match.present
    THEN [tmdb |-> 0, target |-> 0, xref |-> "-", lookup |-> "-",
          calls |-> <<"search">>, disp |-> "unmatched", exc |-> FALSE,
          ok |-> FALSE, post |-> "-"]
    ELSE IF ~tmdb_match.isdict
    THEN [tmdb |-> 0, target |-> 0, xref |-> "-", lookup |-> "-",
          calls |-> <<"search">>, disp |-> "raised", exc |-> TRUE,
          ok |-> FALSE, post |-> "-"]
    ELSE IF tmdb_match.id = 0
    THEN [tmdb |-> 0, target |-> 0, xref |-> "-", lookup |-> "-",
          calls |-> <<"search">>, disp |-> "unmatched", exc |-> FALSE,
          ok |-> FALSE, post |-> "-"]
    ELSE LET b == IF mt = "movie"
                  THEN movie_branch(existing, tmdb_match.id,
                                    tmdb_match.release_date, pr)
                  ELSE series_branch(existing, tmdb_key, tmdb_match.id,
                                     xr, lr, pr)
         IN [tmdb |-> tmdb_match.id, target |-> b.target, xref |-> b.xref,
             lookup |-> b.lookup, calls |-> <<"search">> \o b.calls,
             disp |-> b.disp, exc |-> b.exc, ok |-> b.ok,
             post |-> b.post]

\* update as list.extend: every entry of the list is held
extend(titles_held, titles) ==
    [t \in Titles |->
        titles_held[t] + Cardinality({i \in 1..Len(titles) : titles[i] = t})]

\* worker.py:98: all_titles.update(titles) on a set: every title of the
\* list is held once, however often it was returned
update(titles_held, titles) ==
    [t \in Titles |-> IF t \in Range(titles) THEN 1 ELSE titles_held[t]]

----------------------------------------------------------------------------
(* The year of a movie submission.  A string is a sequence of characters;  *)
(* "^2" stands for SUPERSCRIPT TWO (U+00B2), a character for which         *)
(* str.isdigit is true and which int() rejects.                            *)

DateChars == {"0", "2", "4", "-", "^2"}

\* The decimal digits int() accepts, with their values
Decimal == [c \in {"0", "2", "4"} |-> IF c = "0" THEN 0
                                      ELSE IF c = "2" THEN 2 ELSE 4]

\* The release_date entry of a match: no such key, JSON null, or a string
ReleaseDates ==
    {[kind |-> "missing", chars |-> <<>>], [kind |-> "null", chars |-> <<>>]}
    \cup {[kind |-> "str", chars |-> s] : s \in SeqUpTo(DateChars, MaxDate)}

\* s[:n]
Slice(s, n) == SubSeq(s, 1, IF Len(s) < n THEN Len(s) ELSE n)

\* str.isdigit: not empty and every character is a digit
isdigit(s) ==
    /\ Len(s) > 0
    /\ \A i \in 1..Len(s) : s[i] \in DOMAIN Decimal \cup {"^2"}

\* int(s) for a string isdigit accepts: ValueError unless every character
\* is a decimal digit
int(s) ==
    LET RECURSIVE Value(_)
        Value(k) == IF k = 0 THEN 0 ELSE 10 * Value(k - 1) + Decimal[s[k]]
    IN IF \A i \in 1..Len(s) : s[i] \in DOMAIN Decimal
       THEN [exc |-> FALSE, value |-> Value(Len(s))]
       ELSE [exc |-> TRUE, value |-> 0]

\* worker.py:120-121: tmdb_match.get("release_date", "0000")[:4], then
\* int(year_str) if year_str.isdigit() else 0; slicing None raises TypeError
extract_year(rd) ==
    IF rd.kind = "null" THEN [exc |-> TRUE, value |-> 0]
    ELSE LET date == IF rd.kind = "missing" THEN <<"0", "0", "0", "0">>
                     ELSE rd.chars
             year_str == Slice(date, 4)
         IN IF isdigit(year_str) THEN int(year_str)
            ELSE [exc |-> FALSE, value |-> 0]

\* radarr.py:60-73: the payload carries "year" only when year > 0
build_payload(y) ==
    IF y > 0 THEN [monitored |-> TRUE, year |-> y] ELSE [monitored |-> TRUE]

NoPayload == [monitored |-> FALSE]

----------------------------------------------------------------------------
(* Source adapters: sources/netflix.py (static HTML over AsyncClient) and  *)
(* sources/flixpatrol.py (a browser driven by Selenium)                    *)

CountryCodes == {"US", "de", "FI", "XX"}

\* str.upper and str.lower on the codes of the model
Upper == [c \in CountryCodes |-> IF c = "de" THEN "DE" ELSE c]

Lower == [c \in CountryCodes |->
            IF c = "US" THEN "us" ELSE IF c = "de" THEN "de"
            ELSE IF c = "FI" THEN "fi" ELSE "xx"]

\* flixpatrol.py:27-32: the entries of country_map for the codes above
country_map == [c \in {"US", "DE"} |->
                  IF c = "US" THEN "united-states" ELSE "germany"]

\* netflix.py:13-20: the entries of mapping for the codes above
mapping == [c \in {"US", "DE", "FI"} |->
              IF c = "US" THEN "united-states"
              ELSE IF c = "DE" THEN "germany" ELSE "finland"]

\* country_slug that falls back to the lower-case code
country_slug_passthrough(code) ==
    IF Upper[code] \in DOMAIN country_map THEN country_map[Upper[code]]
    ELSE Lower[code]

\* flixpatrol.py:33: country_map.get(country_code.upper()); "" is None
country_slug(code) ==
    IF Upper[code] \in DOMAIN country_map THEN country_map[Upper[code]]
    ELSE ""

\* netflix.py:11-21: mapping.get(code.upper(), code.lower())
country_name_from_code(code) ==
    IF Upper[code] \in DOMAIN mapping THEN mapping[Upper[code]]
    ELSE Lower[code]

\* The alt texts a list item of a Netflix page can carry; "" stands for
\* an item without an image or without an alt text
AltTexts == {"", " ", "Alpha", "Beta", " Beta "}

\* str.strip on the alt texts
strip == [t \in AltTexts |->
            IF t = " " THEN "" ELSE IF t = " Beta " THEN "Beta" ELSE t]

\* The <li> elements one <ul> of a Netflix page can hold, by alt text
TitleLists ==
    {<<>>, <<" ">>, <<"Alpha">>, <<" Beta ">>, <<" ", "Alpha">>,
     <<"Beta", "Alpha">>, <<"Alpha", "", "Beta">>}

\* A Netflix page: its <ul> elements in document order
NetflixPages == SeqUpTo(TitleLists, MaxBlocks)

\* netflix.py:60-69: the stripped, non-empty alt texts of the items
current_titles(ul) ==
    LET RECURSIVE Items(_, _)
        Items(i, acc) ==
            IF i > Len(ul) THEN acc
            ELSE Items(i + 1, IF ul[i] # "" /\ strip[ul[i]] # ""
                              THEN Append(acc, strip[ul[i]])
                              ELSE acc)
    IN Items(1, <<>>)

\* the scan of netflix.py:60-75 with >= at line 72: the last list with
\* the most titles
parse_tudum_list_last(uls) ==
    LET RECURSIVE Scan(_, _)
        Scan(k, titles) ==
            IF k > Len(uls) THEN titles
            ELSE Scan(k + 1,
                      IF Len(current_titles(uls[k])) >= Len(titles)
                      THEN current_titles(uls[k])
                      ELSE titles)
    IN Scan(1, <<>>)

\* netflix.py:48-77: the first list with the most titles; max_titles is
\* the length of titles throughout
parse_tudum_list(uls) ==
    LET RECURSIVE Scan(_, _)
        Scan(k, titles) ==
            IF k > Len(uls) THEN titles
            ELSE Scan(k + 1,
                      IF Len(current_titles(uls[k])) > Len(titles)
                      THEN current_titles(uls[k])
                      ELSE titles)
    IN Scan(1, <<>>)

\* A FlixPatrol card: the text of its h3 ("Other": another text, or no
\* h3), whether it holds a table.card-table, and the titles of the rows
Cards ==
    {[h3 |-> h, table |-> FALSE, titles |-> <<>>] :
        h \in {"Movies", "TV Shows", "TOP 10 Overall", "Other"}}
    \cup {[h3 |-> h, table |-> TRUE, titles |-> t] :
            h \in {"Movies", "TV Shows", "TOP 10 Overall", "Other"},
            t \in {<<>>, <<"Alpha">>}}

FlixPages == SeqUpTo(Cards, MaxBlocks)

\* flixpatrol.py:109-135
parse_flixpatrol_table(card) == IF card.table THEN card.titles ELSE <<>>

\* flixpatrol.py:152-183: the first card under the primary header, else the
\* first card under the fallback header, else nothing
flixpatrol_titles(cards, mt) ==
    LET target_header_primary == IF mt = "movie" THEN "Movies" ELSE "TV Shows"
        First(h) == {k \in 1..Len(cards) :
                        /\ cards[k].h3 = h
                        /\ \A j \in 1..(k - 1) : cards[j].h3 # h}
        primary == First(target_header_primary)
        fallback == First("TOP 10 Overall")
    IN IF primary # {}
       THEN parse_flixpatrol_table(cards[CHOOSE k \in primary : TRUE])
       ELSE IF fallback # {}
       THEN parse_flixpatrol_table(cards[CHOOSE k \in fallback : TRUE])
       ELSE <<>>

NoHtml == [kind |-> "none", body |-> <<>>]

\* scrape_netflix without the return of netflix.py:83-84: the parser is
\* handed None and raises
scrape_netflix_unguarded(page, parser_raises) ==
    IF page.kind = "none" THEN [exc |-> TRUE, titles |-> <<>>]
    ELSE IF page.kind = "object"
    THEN [exc |-> parser_raises, titles |-> <<>>]
    ELSE [exc |-> FALSE, titles |-> parse_tudum_list(page.body)]

\* netflix.py:79-89: nothing fetched gives []; a body that is no string
\* (a JSON answer, network.py:28-29) goes to the HTML parser, which this
\* repository does not define: it raises or finds no list
scrape_netflix(page, parser_raises) ==
    IF page.kind = "none" THEN [exc |-> FALSE, titles |-> <<>>]
    ELSE IF page.kind = "object"
    THEN [exc |-> parser_raises, titles |-> <<>>]
    ELSE [exc |-> FALSE, titles |-> parse_tudum_list(page.body)]

\* flixpatrol.py:144-183
scrape_flixpatrol(page, mt) ==
    IF page.kind = "none" THEN <<>> ELSE flixpatrol_titles(page.body, mt)

\* the handler of line 85 gives up: a tab that is not found ends the call
tab_not_found_gives_up(title) == "finally"

\* flixpatrol.py:85-90: the handler of the tab wait reads the page title;
\* a "404 Not Found" title returns None, an unreadable title raises into
\* the handler of line 102, any other title goes on to the content wait
tab_not_found(title) == IF title = "plain" THEN "tabbed" ELSE "finally"

\* teardown only after a page was fetched
teardown_on_success(session, page) == session = "open" /\ page.kind # "none"

\* flixpatrol.py:105-107: finally, quit when a driver was created
teardown(session, page) == session = "open"

----------------------------------------------------------------------------
(* The service: settings dictionaries, runs in flight, the HTTP session *)

\* The run-level settings a dictionary can hold (countries, keys, URLs,
\* quality tier, library path, auto-search flag), as one value
SettingsValues == {"a", "b"}

\* The jobs of the scheduler configuration
JobKeys == {"netflix_movies", "amazon_series"}

Slots == 1..MaxTasks

\* POST /api/settings that writes the new values into the dictionary the
\* service already holds
update_settings_in_place(h, ref, v) ==
    [heap |-> [h EXCEPT ![ref] = v], config |-> ref]

\* app.py:200-205: the values are saved, load_settings builds a new
\* dictionary from the file, and the service is pointed at it
update_settings(h, ref, v) ==
    [heap |-> Append(h, v), config |-> Len(h) + 1]

NoSession == [made |-> 0, live |-> FALSE]

\* network.py:9-13
get_session(s) ==
    IF s.live THEN s ELSE [made |-> s.made + 1, live |-> TRUE]

\* network.py:15-19
close(s) == [s EXCEPT !.live = FALSE]

\* every run closes the session when it ends
closes_session_always(m) == TRUE

\* worker.py:168-172 against scheduler.py:63-73: only the wrapper of the
\* menu closes the session after a run
closes_session(m) == m = "cli"

NoTask == [key |-> "", origin |-> "", cfg |-> 0, used |-> {},
           pos |-> "", sess |-> 0, cut |-> FALSE]

\* What is kept of a run that has ended: the settings values it read and
\* whether one of its requests lost the session
Ended(t) == [NoTask EXCEPT !.pos = "Done", !.used = t.used, !.cut = t.cut]

Active(t) == t.pos \in {"Listing", "Scraping", "Submitting"}

\* process_media_list, by the requests it awaits: the library listing
\* (worker.py:82), the adapter calls and metadata searches (worker.py:97,
\* :105), the submissions (worker.py:123, :135)
next_pos(p) ==
    IF p = "Listing" THEN "Scraping"
    ELSE IF p = "Scraping" THEN "Submitting"
    ELSE "Done"

----------------------------------------------------------------------------
(* Job keys: from "<platform>_<kind>" to a call of the pipeline *)

\* The words a job key is written with ("bogus" is no platform id); a key
\* is a string of words and "_" characters
Words == {"netflix", "amazon", "bogus", "movies", "series"}

JobKeyStrings == SeqUpTo(Words \cup {"_"}, MaxKey)

\* settings.py:30-49: id -> slug, for the first two of the platforms
SUPPORTED_PLATFORMS ==
    [p \in {<<"netflix">>, <<"amazon">>} |->
        IF p = <<"netflix">> THEN "netflix" ELSE "amazon-prime"]

\* str.split("_"): the pieces between the "_" characters, empty ones
\* included; a piece is the string of the words written without a "_"
\* between them
split(key) ==
    LET RECURSIVE Pieces(_, _, _)
        Pieces(i, done, piece) ==
            IF i > Len(key) THEN Append(done, piece)
            ELSE IF key[i] = "_" THEN Pieces(i + 1, Append(done, piece), <<>>)
            ELSE Pieces(i + 1, done, Append(piece, key[i]))
    IN Pieces(1, <<>>, <<>>)

NoFunc == [wrapper |-> FALSE, platform_id |-> <<>>, media_type |-> "",
           platform_slug |-> ""]

\* _create_job_func without the return of scheduler.py:56-58: a platform
\* that is not in the table is scraped under its id
_create_job_func_any_platform(key) ==
    LET parts == split(key) IN
    IF Len(parts) < 2 THEN NoFunc
    ELSE [wrapper |-> TRUE,
          platform_id |-> parts[1],
          media_type |-> IF parts[2] = <<"movies">> THEN "movie"
                         ELSE "series",
          platform_slug |-> IF parts[1] \in DOMAIN SUPPORTED_PLATFORMS
                            THEN SUPPORTED_PLATFORMS[parts[1]]
                            ELSE "other"]

\* scheduler.py:41-73: the function a job key gives: lambda: None for a
\* key of fewer than two parts or of an unknown platform, else job_wrapper
\* with platform, media type and slug bound
_create_job_func(key) ==
    LET parts == split(key) IN
    IF Len(parts) < 2 THEN NoFunc
    ELSE IF parts[1] \notin DOMAIN SUPPORTED_PLATFORMS THEN NoFunc
    ELSE [wrapper |-> TRUE,
          platform_id |-> parts[1],
          media_type |-> IF parts[2] = <<"movies">> THEN "movie"
                         ELSE "series",
          platform_slug |-> SUPPORTED_PLATFORMS[parts[1]]]

NoInvocation == [pipeline |-> FALSE, media_type |-> "", target |-> "",
                 adapter |-> "", slug |-> ""]

\* scheduler.py:63-71 and worker.py:67, :76: the call job_wrapper makes
job_wrapper(f) ==
    [pipeline |-> TRUE,
     media_type |-> f.media_type,
     target |-> target_name(f.media_type),
     adapter |-> IF f.platform_id = <<"netflix">> THEN "netflix"
                 ELSE "flixpatrol",
     slug |-> IF f.platform_id = <<"netflix">> THEN ""
              ELSE f.platform_slug]

----------------------------------------------------------------------------
(* Settings file, environment overrides and the login guard *)

\* A stored or typed password: the text, and whether it is kept as its
\* bcrypt hash
Plain(p) == [hashed |-> FALSE, of |-> p]

\* password.py:17-22 (the salt is left out)
hash_password(p) == [hashed |-> TRUE, of |-> p]

\* password.py:11-14
is_bcrypt_hash(stored) == stored.hashed

\* password.py:25-45
verify_password(plain_password, stored) == plain_password = stored.of

\* needs_rehash that takes every stored password for a hash
needs_rehash_never(stored) == FALSE

\* password.py:48-50
needs_rehash(stored) == ~is_bcrypt_hash(stored)

\* The values of the overridable key general.tmdb_api_key
ApiKeys == {"", "user-key", "env-key"}

\* The parts of the settings dictionary looked at: one overridable key,
\* the auth switch and the auth password (the user name is "admin")
SettingsFiles ==
    [tmdb_api_key : ApiKeys \ {"env-key"},
     enabled : BOOLEAN,
     password : {Plain("secret"), hash_password("secret")}]

DefaultSettings ==
    [tmdb_api_key |-> "", enabled |-> FALSE, password |-> Plain("secret")]

Environs ==
    [MEDIATREND_TMDB_API_KEY : {"", "env-key"},
     MEDIATREND_AUTH_ENABLED : {"", "true"},
     MEDIATREND_AUTH_PASSWORD : {"", "env-secret"}]

NoEnviron ==
    [MEDIATREND_TMDB_API_KEY |-> "", MEDIATREND_AUTH_ENABLED |-> "",
     MEDIATREND_AUTH_PASSWORD |-> ""]

\* settings.py:121-150: the file is read and the overrides that are set
\* are written into the dictionary read
load_settings(file, env) ==
    [file EXCEPT
       !.tmdb_api_key = IF env.MEDIATREND_TMDB_API_KEY # ""
                        THEN env.MEDIATREND_TMDB_API_KEY ELSE @,
       !.enabled = IF env.MEDIATREND_AUTH_ENABLED # ""
                   THEN env.MEDIATREND_AUTH_ENABLED = "true" ELSE @]

\* settings.py:154-167: the dictionary handed over becomes the file
save_settings(data) == data

IPs == {"10.0.0.1"}

NoCredentials == [username |-> "", password |-> ""]

\* The credentials a request can carry
Credentials ==
    {NoCredentials}
    \cup [username : {"admin"},
          password : {"secret", "changed", "guess", "env-secret"}]

\* is_ip_locked counting the failures on record, however old
is_ip_locked_unpruned(attempts, t) ==
    [attempts |-> attempts, locked |-> Len(attempts) >= MAX_FAILED_ATTEMPTS]

\* app.py:73-78: the failures older than the window are dropped, then the
\* rest is counted
is_ip_locked(attempts, t) ==
    LET Recent(at) == t - at < LOCKOUT_DURATION
        kept == SelectSeq(attempts, Recent)
    IN [attempts |-> kept, locked |-> Len(kept) >= MAX_FAILED_ATTEMPTS]

\* app.py:81-83
record_failed_attempt(attempts, t) == Append(attempts, t)

\* clear_failed_attempts leaving the record as it is
clear_failed_attempts_kept(attempts) == attempts

\* app.py:86-88
clear_failed_attempts(attempts) == <<>>

NoResponse == [endpoint |-> "", status |-> 0, credentials |-> NoCredentials,
               recent |-> 0]

\* app.py:104-142: the part of check_auth after the lock check, on the
\* record of the IP as it is when the credentials are compared
check_credentials(attempts, credentials) ==
    LET passed == [attempts |-> attempts, config |-> app_config,
                 file |-> settings_file, status |-> 200]
        correct_password ==
            IF environ.MEDIATREND_AUTH_PASSWORD # ""
            THEN Plain(environ.MEDIATREND_AUTH_PASSWORD)
            ELSE app_config.password
        username_match == credentials.username = "admin"
        password_match == verify_password(credentials.password,
                                          correct_password)
        migrated == [app_config EXCEPT
                       !.password = hash_password(credentials.password)]
    IN IF credentials = NoCredentials
       THEN [passed EXCEPT !.status = 401]
       ELSE IF ~(username_match /\ password_match)
       THEN [passed EXCEPT
               !.attempts = record_failed_attempt(attempts, now),
               !.status = 401]
       ELSE IF needs_rehash(app_config.password)
               /\ environ.MEDIATREND_AUTH_PASSWORD = ""
       THEN [attempts |-> clear_failed_attempts(attempts),
             config |-> migrated,
             file |-> save_settings(migrated),
             status |-> 200]
       ELSE [passed EXCEPT !.attempts = clear_failed_attempts(attempts)]

\* app.py:91-142: what check_auth does to the record of the IP, to the
\* global config and to the settings file, and the status it gives (200:
\* the request goes on to its handler), when no other request comes
\* between its statements
check_auth(ip, credentials) ==
    LET passed == [attempts |-> LOGIN_ATTEMPTS[ip], config |-> app_config,
                 file |-> settings_file, status |-> 200]
        l == is_ip_locked(LOGIN_ATTEMPTS[ip], now)
    IN IF ~app_config.enabled THEN passed
       ELSE IF l.locked
       THEN [passed EXCEPT !.attempts = l.attempts, !.status = 429]
       ELSE check_credentials(l.attempts, credentials)

\* The threads of the pool that runs check_auth, a function that is no
\* coroutine, for requests that arrive together
Workers == {"w1", "w2"}

\* The cap of web_logger, app.py:45
LOG_BUFFER_MAX == 100

\* web_logger that drops the newest message of a full buffer
web_logger_drop_newest(buffer, message) ==
    IF Len(buffer) + 1 > LOG_BUFFER_MAX THEN buffer
    ELSE Append(buffer, message)

\* app.py:41-46: the message is appended, then the oldest one is popped
\* when the buffer holds more than the cap
web_logger(buffer, message) ==
    LET appended == Append(buffer, message)
    IN IF Len(appended) > LOG_BUFFER_MAX THEN Tail(appended) ELSE appended

\* The failures of an IP that are younger than the lockout window
RecentFailures(ip) ==
    Cardinality({i \in 1..Len(LOGIN_ATTEMPTS[ip]) :
                    now - LOGIN_ATTEMPTS[ip][i] < LOCKOUT_DURATION})

----------------------------------------------------------------------------
(* The jobs of the scheduler *)

\* The characters a time string is written with
TimeChars == {"2", "7", ":", "a"}

TimeDecimal == [c \in {"2", "7"} |-> IF c = "2" THEN 2 ELSE 7]

TimeStrings == SeqUpTo(TimeChars, MaxTime)

\* str.split(":")
split_time(s) ==
    LET RECURSIVE Pieces(_, _, _)
        Pieces(i, done, piece) ==
            IF i > Len(s) THEN Append(done, piece)
            ELSE IF s[i] = ":" THEN Pieces(i + 1, Append(done, piece), <<>>)
            ELSE Pieces(i + 1, done, Append(piece, s[i]))
    IN Pieces(1, <<>>, <<>>)

\* int(piece) of scheduler.py:31: ValueError for an empty piece and for
\* one with a character that is no digit
int_piece(piece) ==
    LET RECURSIVE Value(_)
        Value(k) == IF k = 0 THEN 0
                    ELSE 10 * Value(k - 1) + TimeDecimal[piece[k]]
    IN IF Len(piece) > 0 /\ \A i \in 1..Len(piece) :
                                piece[i] \in DOMAIN TimeDecimal
       THEN [exc |-> FALSE, value |-> Value(Len(piece))]
       ELSE [exc |-> TRUE, value |-> 0]

\* scheduler.py:31-32: the unpacking into hour and minute needs two
\* pieces, int needs digits, and CronTrigger takes an hour of 0..23 and a
\* minute of 0..59; each of them fails with a ValueError
cron_trigger(time_str) ==
    LET pieces == split_time(time_str) IN
    IF Len(pieces) # 2 THEN [exc |-> TRUE, hour |-> 0, minute |-> 0]
    ELSE LET hour == int_piece(pieces[1])
             minute == int_piece(pieces[2])
         IN IF hour.exc \/ minute.exc \/ hour.value > 23 \/ minute.value > 59
            THEN [exc |-> TRUE, hour |-> 0, minute |-> 0]
            ELSE [exc |-> FALSE, hour |-> hour.value, minute |-> minute.value]

\* A job key that the configuration does not hold
NoJob == [present |-> FALSE, enabled |-> FALSE, time |-> <<>>]

\* The entries a job key can have: the first key with every time string,
\* the other keys with the time of the defaults
JobConfigs(k) ==
    {NoJob}
    \cup [present : {TRUE}, enabled : BOOLEAN,
          time : IF k = "netflix_movies" THEN TimeStrings
                 ELSE {<<"2", ":", "2", "7">>}]

\* The entries a saved configuration puts in the place of an earlier one:
\* a valid time, an hour out of range, a piece that is no number
SavedConfigs(k) ==
    {NoJob}
    \cup [present : {TRUE}, enabled : BOOLEAN,
          time : IF k = "netflix_movies"
                 THEN {<<"2", ":", "2", "7">>, <<"2", "7", ":", "2">>,
                       <<"a", ":", "2">>}
                 ELSE {<<"2", ":", "2", "7">>}]

\* The job keys in the order of the dictionary
JobOrder == <<"netflix_movies", "amazon_series">>

\* scheduler.py:87-93: replace_existing=True
add_job(store, job_id) ==
    IF \E i \in 1..Len(store) : store[i] = job_id THEN store
    ELSE Append(store, job_id)

\* _setup_jobs without remove_all_jobs
_setup_jobs_keep(jobs, store) ==
    LET RECURSIVE Loop(_, _)
        Loop(i, st) ==
            IF i > Len(JobOrder) THEN st
            ELSE LET job_cfg == jobs[JobOrder[i]] IN
                 Loop(i + 1,
                      IF job_cfg.present /\ job_cfg.enabled
                            /\ ~cron_trigger(job_cfg.time).exc
                      THEN add_job(st, JobOrder[i])
                      ELSE st)
    IN Loop(1, store)

\* scheduler.py:21-34: all jobs are removed, then every enabled job whose
\* time gives a trigger is added
_setup_jobs(jobs, store) ==
    LET RECURSIVE Loop(_, _)
        Loop(i, st) ==
            IF i > Len(JobOrder) THEN st
            ELSE LET job_cfg == jobs[JobOrder[i]] IN
                 Loop(i + 1,
                      IF job_cfg.present /\ job_cfg.enabled
                            /\ ~cron_trigger(job_cfg.time).exc
                      THEN add_job(st, JobOrder[i])
                      ELSE st)
    IN Loop(1, <<>>)

----------------------------------------------------------------------------
(* Two runs on one target *)

\* The platforms of the two job keys, e.g. netflix_movies and amazon_movies
RunPlatforms == {"netflix", "amazon"}

\* The locals of a process_media_list call that has not begun
NoRun == [pc |-> "Idle", existing |-> {}, listed |-> FALSE, left |-> 0,
          added |-> 0]

NoStep == "-"

----------------------------------------------------------------------------
(* State *)

NoItem == [tmdb |-> 0, target |-> 0, xref |-> "-", lookup |-> "-",
           trace |-> <<>>, disp |-> "new", post |-> "-"]

NoCalls == [list |-> 0, adapter |-> 0, search |-> 0]

NoTitles == [t \in Titles |-> 0]

NoAdds == [i \in Ids |-> 0]

NoPrevious == [known |-> FALSE, titles |-> NoTitles]

\* TRUE when the titles scraped now are those of the previous run
SameAsPrevious(titles_held) ==
    prev_titles.known /\ prev_titles.titles = titles_held

Count(calls, name) == Cardinality({i \in 1..Len(calls) : calls[i] = name})

Counted(calls_so_far, calls) ==
    [k \in DOMAIN calls_so_far |-> calls_so_far[k] + Count(calls, k)]

\* Number of entries a collection of titles holds
Total(titles_held) ==
    LET RECURSIVE Sum(_)
        Sum(S) == IF S = {} THEN 0
                  ELSE LET t == CHOOSE x \in S : TRUE
                       IN titles_held[t] + Sum(S \ {t})
    IN Sum(Titles)

countries == config.general.countries

NoReport == [name \in {} |-> 0]

\* worker.py:100: the number of titles held is logged after the last country
found_report(titles_held) == "titlesScraped" :> Total(titles_held)

\* completion_report that is silent when nothing was added
completion_report_if_any(counts, added) ==
    IF added > 0 THEN counts @@ ("titlesAdded" :> added) ELSE counts

\* worker.py:142: the number of adds is logged when the loop has ended
completion_report(counts, added) == counts @@ ("titlesAdded" :> added)

\* The libraries a target system holds before the first run
InitialLibraries == {{}, {1}}

\* No invocation of process_media_list has been made
InitPipeline ==
    /\ run = 0
    /\ pc = "Idle"
    /\ media_type \in {"movie", "series"}
    /\ config \in Configs
    /\ \E lib \in InitialLibraries : library = [radarr |-> lib, sonarr |-> lib]
    /\ existing_ids = {}
    /\ ci = 1
    /\ all_titles = NoTitles
    /\ pending = 0
    /\ added_count = 0
    /\ last = NoItem
    /\ added_ids = NoAdds
    /\ net = NoCalls
    /\ called = {}
    /\ exc = ""
    /\ index0 = {}
    /\ lib0 = {}
    /\ listed = FALSE
    /\ prev_titles = NoPrevious
    /\ same = FALSE
    /\ report = NoReport
    /\ contacted = {}

\* No year computation is looked at
YearOff ==
    /\ release_date = [kind |-> "missing", chars |-> <<>>]
    /\ year_pc = "off"
    /\ year = 0
    /\ payload = NoPayload

\* No adapter call is looked at
AdapterOff ==
    /\ adapter = "netflix"
    /\ country_code = "US"
    /\ a_pc = "off"
    /\ slug = ""
    /\ fetches = 0
    /\ driver = "none"
    /\ html = NoHtml
    /\ a_result = <<>>
    /\ seen = {}

\* No run is started from outside: neither server nor menu is looked at
ServiceOff ==
    /\ mode = "web"
    /\ heap = <<"a">>
    /\ service_config = 1
    /\ tasks = [s \in Slots |-> NoTask]
    /\ http_session = NoSession
    /\ run_all = ""

\* No job key is looked at
JobOff ==
    /\ job_key = <<>>
    /\ job_pc = "off"
    /\ job_func = NoFunc
    /\ invocation = NoInvocation

\* No request is looked at
AuthOff ==
    /\ settings_file = DefaultSettings
    /\ environ = NoEnviron
    /\ app_config = DefaultSettings
    /\ entered = [tmdb_api_key |-> {}, enabled |-> {}, password |-> ""]
    /\ LOGIN_ATTEMPTS = [ip \in IPs |-> <<>>]
    /\ now = 0
    /\ response = NoResponse

\* No scheduler is looked at
SchedOff ==
    /\ jobs_config = [k \in JobKeys |-> NoJob]
    /\ scheduled = <<>>
    /\ setups = 0

\* No pair of concurrent runs is looked at
ConcOff ==
    /\ job_runs = [p \in RunPlatforms |-> NoRun]
    /\ target_library = {}
    /\ successes = [i \in Ids |-> 0]
    /\ last_step = NoStep
    /\ shared_type = ""

\* No request is inside check_auth
RaceOff ==
    /\ in_flight = [w \in Workers |-> ""]
    /\ remaining = MAX_FAILED_ATTEMPTS

\* No log buffer is looked at
LogOff ==
    /\ LOG_BUFFER = <<>>
    /\ logged = 0
    /\ cleared_at = 0

MoreOff == SchedOff /\ ConcOff /\ RaceOff /\ LogOff

WebOff == ServiceOff /\ JobOff /\ AuthOff /\ MoreOff

Init ==
    /\ InitPipeline
    /\ YearOff
    /\ AdapterOff
    /\ WebOff

\* worker.py:52-79: entry of process_media_list and the checks of step 1
Invoke ==
    /\ run' = run + 1
    /\ pc' = IF validate(config, media_type) THEN "FetchingLibrary"
             ELSE "Returned"
    /\ existing_ids' = {}
    /\ ci' = 1
    /\ all_titles' = NoTitles
    /\ pending' = 0
    /\ added_count' = 0
    /\ last' = NoItem
    /\ added_ids' = NoAdds
    /\ net' = NoCalls
    /\ called' = {}
    /\ exc' = ""
    /\ index0' = {}
    /\ lib0' = library[target_name(media_type)]
    /\ listed' = FALSE
    /\ same' = FALSE
    /\ report' = NoReport
    /\ contacted' = {}
    /\ UNCHANGED <<media_type, config, library>>
    /\ UNCHANGED outside_pipeline

\* The first invocation of the job
Start ==
    /\ pc = "Idle"
    /\ Invoke
    /\ prev_titles' = NoPrevious

\* scheduler.py:109-112: the same job is invoked again after its run ended
Restart ==
    /\ pc \in {"Done", "Returned", "Raised"}
    /\ run < MaxRuns
    /\ Invoke
    /\ prev_titles' = IF pc = "Done"
                         \/ (pc = "Raised" /\ exc \in {"match", "year", "add"})
                      THEN [known |-> TRUE, titles |-> all_titles]
                      ELSE NoPrevious

\* worker.py:81-89: step 2, the listing of the relevant target
FetchLibrary ==
    /\ pc = "FetchingLibrary"
    /\ \E resp \in ListResponses :
         LET r == IF media_type = "movie"
                  THEN radarr_lookup_existing(resp, library.radarr)
                  ELSE sonarr_lookup_existing(resp, library.sonarr)
         IN /\ net' = [net EXCEPT
                         !.list = @ + Cardinality(listing_targets(media_type))]
            /\ contacted' = contacted \cup listing_targets(media_type)
            /\ IF r.exc
               THEN /\ pc' = "Raised"
                    /\ exc' = "list"
                    /\ UNCHANGED <<existing_ids, index0, listed, prev_titles,
                                   same, report>>
               ELSE /\ pc' = IF Len(countries) = 0 THEN "Done" ELSE "Scraping"
                    /\ existing_ids' = r.ids
                    /\ index0' = r.ids
                    /\ listed' = r.listed
                    /\ exc' = exc
                    /\ IF Len(countries) = 0
                       THEN /\ same' = SameAsPrevious(NoTitles)
                            /\ prev_titles' = NoPrevious
                            /\ report' = completion_report(
                                             found_report(NoTitles), 0)
                       ELSE UNCHANGED <<prev_titles, same, report>>
    /\ UNCHANGED <<run, media_type, config, library, ci, all_titles, pending,
                   added_count, last, added_ids, called, lib0>>
    /\ UNCHANGED outside_pipeline

\* worker.py:95-100: step 3, one iteration of the loop over countries
ScrapeCountry ==
    /\ pc = "Scraping"
    /\ ci <= Len(countries)
    /\ \E out \in AdapterOutcomes :
         /\ net' = [net EXCEPT !.adapter = @ + 1]
         /\ IF out.kind = "raise"
            THEN /\ pc' = "Raised"
                 /\ exc' = "scrape"
                 /\ prev_titles' = NoPrevious
                 /\ UNCHANGED <<ci, all_titles, pending, same, report>>
            ELSE /\ all_titles' = update(all_titles, out.titles)
                 /\ ci' = ci + 1
                 /\ exc' = exc
                 /\ IF ci = Len(countries)
                    THEN /\ pending' = Total(all_titles')
                         /\ pc' = IF all_titles' = NoTitles THEN "Done"
                                  ELSE "Resolving"
                         /\ same' = SameAsPrevious(all_titles')
                         /\ prev_titles' = NoPrevious
                         /\ report' =
                              IF all_titles' = NoTitles
                              THEN completion_report(
                                       found_report(all_titles'), 0)
                              ELSE found_report(all_titles')
                    ELSE UNCHANGED <<pending, pc, prev_titles, same, report>>
    /\ UNCHANGED <<run, media_type, config, library, existing_ids,
                   added_count, last, added_ids, called, index0, lib0,
                   listed, contacted>>
    /\ UNCHANGED outside_pipeline

\* The outcomes of one iteration, over every answer of the four calls
Outcomes(existing, mt, tmdb_key) ==
    {loop_body(existing, mt, tmdb_key, sr, xr, lr, pr) :
        sr \in SearchResponses, xr \in XrefResponses,
        lr \in LookupResponses, pr \in PostResponses}

\* Outcomes, tabulated over the values its arguments take; @@ yields the
\* function as an explicit table, so that every entry is computed once
OutcomeTable ==
    LET table == [existing \in SUBSET Ids, mt \in {"movie", "series"},
                  tmdb_key \in {"", "tmdb-key"} |->
                     Outcomes(existing, mt, tmdb_key)]
    IN table @@ table

\* The statement of the loop body an exception came from, by the calls the
\* iteration had made: "match" worker.py:107, "year" worker.py:120-121,
\* "add" worker.py:123 / :138
RaisedAt(r) ==
    IF r.tmdb = 0 THEN "match"
    ELSE IF Range(r.calls) = {"search"} THEN "year"
    ELSE "add"

\* worker.py:104-142: step 4, one iteration of the loop over all_titles,
\* and the completion report after the last one
ProcessTitle ==
    /\ pc = "Resolving"
    /\ \E r \in OutcomeTable[existing_ids, media_type,
                              config.general.tmdb_api_key] :
         /\ pending > 0
         /\ pending' = pending - 1
         /\ last' = [tmdb |-> r.tmdb, target |-> r.target,
                     xref |-> r.xref, lookup |-> r.lookup,
                     trace |-> r.calls, disp |-> r.disp,
                     post |-> r.post]
         /\ net' = Counted(net, r.calls)
         /\ called' = called \cup (Range(r.calls) \ {"search"})
         /\ contacted' = contacted \cup systems_called(media_type, r.calls)
         /\ existing_ids' = index_after_add(existing_ids, r.target, r.ok)
         /\ added_count' = IF r.ok THEN added_count + 1 ELSE added_count
         /\ added_ids' = IF r.ok
                         THEN [added_ids EXCEPT ![r.target] = @ + 1]
                         ELSE added_ids
         /\ library' = IF r.ok
                       THEN [library EXCEPT ![target_name(media_type)] =
                               @ \cup {r.target}]
                       ELSE library
         /\ exc' = IF r.exc THEN RaisedAt(r) ELSE exc
         /\ pc' = IF r.exc THEN "Raised"
                  ELSE IF pending' = 0 THEN "Done"
                  ELSE "Resolving"
         /\ report' = IF pc' = "Done"
                      THEN completion_report(report, added_count')
                      ELSE report
    /\ UNCHANGED <<run, media_type, config, ci, all_titles, index0, lib0,
                   listed, prev_titles, same>>
    /\ UNCHANGED outside_pipeline

Next == Start \/ FetchLibrary \/ ScrapeCountry \/ ProcessTitle

\* One invocation of the job
Spec == Init /\ [][Next]_vars

\* The job invoked several times in a row, with every key configured
InitRerun ==
    /\ Init
    /\ config.general.tmdb_api_key # ""
    /\ config.radarr.api_key # ""
    /\ config.sonarr.api_key # ""

NextRerun == Start \/ Restart \/ FetchLibrary \/ ScrapeCountry \/ ProcessTitle

SpecRerun == InitRerun /\ [][NextRerun]_vars

\* The pipeline at rest, for the specifications of the other components
PipelineIdle ==
    /\ InitPipeline
    /\ config = [general |-> [tmdb_api_key |-> "tmdb-key",
                               countries |-> <<"US", "DE">>],
                  radarr |-> [api_key |-> "radarr-key"],
                  sonarr |-> [api_key |-> "sonarr-key"]]
    /\ library = [radarr |-> {}, sonarr |-> {}]

----------------------------------------------------------------------------
(* The year of one movie submission, for every release_date *)

InitYear ==
    /\ PipelineIdle
    /\ media_type = "movie"
    /\ AdapterOff
    /\ WebOff
    /\ release_date \in ReleaseDates
    /\ year_pc = "match"
    /\ year = 0
    /\ payload = NoPayload

\* worker.py:119-121
ExtractYear ==
    /\ year_pc = "match"
    /\ LET y == extract_year(release_date) IN
         IF y.exc
         THEN year_pc' = "raised" /\ year' = year
         ELSE year_pc' = "computed" /\ year' = y.value
    /\ UNCHANGED <<release_date, payload, pipeline_vars, adapter_vars,
                   web_vars>>

\* worker.py:123 and radarr.py:48-75: the payload of the POST
BuildPayload ==
    /\ year_pc = "computed"
    /\ payload' = build_payload(year)
    /\ year_pc' = "built"
    /\ UNCHANGED <<release_date, year, pipeline_vars, adapter_vars,
                   web_vars>>

NextYear == ExtractYear \/ BuildPayload

SpecYear == InitYear /\ [][NextYear]_vars

----------------------------------------------------------------------------
(* One call of a source adapter, for every country code and every page *)

InitAdapter ==
    /\ PipelineIdle
    /\ YearOff
    /\ WebOff
    /\ adapter \in {"netflix", "flixpatrol"}
    /\ country_code \in CountryCodes
    /\ a_pc = "call"
    /\ slug = ""
    /\ fetches = 0
    /\ driver = "none"
    /\ html = NoHtml
    /\ a_result = <<>>
    /\ seen = {}

\* What an adapter step leaves alone
AdapterFrame ==
    UNCHANGED <<adapter, country_code, pipeline_vars, year_vars, web_vars>>

\* netflix.py:23-46 with network.py:22-35: the page is fetched under the
\* slug of the code; an error status or a transport error gives None, an
\* empty body is treated alike, a JSON answer comes back as an object
NetflixFetch ==
    /\ adapter = "netflix"
    /\ a_pc = "call"
    /\ slug' = country_name_from_code(country_code)
    /\ fetches' = fetches + 1
    /\ a_pc' = "fetched"
    /\ \/ \E cond \in {"404", "transport", "empty"} :
             html' = NoHtml /\ seen' = seen \cup {cond}
       \/ \E page \in NetflixPages :
             html' = [kind |-> "netflix", body |-> page] /\ seen' = seen
       \/ html' = [kind |-> "object", body |-> <<>>]
             /\ seen' = seen \cup {"bad_body"}
    /\ UNCHANGED <<driver, a_result>>
    /\ AdapterFrame

\* netflix.py:79-89
NetflixParse ==
    /\ adapter = "netflix"
    /\ a_pc = "fetched"
    /\ \E parser_raises \in BOOLEAN :
         LET r == scrape_netflix(html, parser_raises) IN
         /\ a_pc' = IF r.exc THEN "raised" ELSE "returned"
         /\ a_result' = r.titles
    /\ UNCHANGED <<slug, fetches, driver, html, seen>>
    /\ AdapterFrame

\* flixpatrol.py:27-56: the slug is looked up; without one the function
\* returns None; else a browser session is started, and when that raises
\* the except of line 102 returns None with no driver to quit
FlixStart ==
    /\ adapter = "flixpatrol"
    /\ a_pc = "call"
    /\ slug' = country_slug(country_code)
    /\ IF slug' = ""
       THEN /\ a_pc' = "fetched"
            /\ seen' = seen \cup {"unsupported"}
            /\ driver' = driver
       ELSE \/ a_pc' = "started" /\ driver' = "open" /\ seen' = seen
            \/ /\ a_pc' = "fetched"
               /\ driver' = driver
               /\ seen' = seen \cup {"start_failed"}
    /\ UNCHANGED <<fetches, html, a_result>>
    /\ AdapterFrame

\* flixpatrol.py:58-69: driver.get, then the check for a not-found page
FlixLoad ==
    /\ adapter = "flixpatrol"
    /\ a_pc = "started"
    /\ fetches' = fetches + 1
    /\ \/ a_pc' = "finally" /\ seen' = seen \cup {"load_failed"}
       \/ a_pc' = "finally" /\ seen' = seen \cup {"404"}
       \/ a_pc' = "loaded" /\ seen' = seen
    /\ UNCHANGED <<slug, driver, html, a_result>>
    /\ AdapterFrame

\* flixpatrol.py:71-90: the tab is clicked; when it is not found the
\* handler checks the title for a 404 and otherwise goes on with the
\* default view; an exception inside the handler reaches line 102
FlixTab ==
    /\ adapter = "flixpatrol"
    /\ a_pc = "loaded"
    /\ \/ a_pc' = "tabbed" /\ seen' = seen
       \/ \E title \in {"plain", "404 Not Found", "unreadable"} :
            /\ a_pc' = tab_not_found(title)
            /\ seen' = seen \cup {"no_tab"}
                        \cup (IF title = "404 Not Found" THEN {"404"}
                              ELSE IF title = "unreadable"
                              THEN {"load_failed"}
                              ELSE {})
    /\ UNCHANGED <<slug, fetches, driver, html, a_result>>
    /\ AdapterFrame

\* flixpatrol.py:92-104: the wait for the content container; a timeout
\* (or any other exception) is caught at line 102 and gives None
FlixWait ==
    /\ adapter = "flixpatrol"
    /\ a_pc = "tabbed"
    /\ a_pc' = "finally"
    /\ \/ html' = html /\ seen' = seen \cup {"no_container"}
       \/ \E page \in FlixPages :
             html' = [kind |-> "flixpatrol", body |-> page] /\ seen' = seen
    /\ UNCHANGED <<slug, fetches, driver, a_result>>
    /\ AdapterFrame

\* flixpatrol.py:105-107: the finally clause; an exception of driver.quit
\* replaces the return value and leaves the adapter
FlixQuit ==
    /\ adapter = "flixpatrol"
    /\ a_pc = "finally"
    /\ IF teardown(driver, html)
       THEN /\ driver' = "quit"
            /\ \/ a_pc' = "fetched" /\ seen' = seen
               \/ a_pc' = "raised" /\ seen' = seen \cup {"quit_failed"}
       ELSE a_pc' = "fetched" /\ UNCHANGED <<driver, seen>>
    /\ UNCHANGED <<slug, fetches, html, a_result>>
    /\ AdapterFrame

\* flixpatrol.py:137-183
FlixParse ==
    /\ adapter = "flixpatrol"
    /\ a_pc = "fetched"
    /\ a_pc' = "returned"
    /\ a_result' = scrape_flixpatrol(html, media_type)
    /\ UNCHANGED <<slug, fetches, driver, html, seen>>
    /\ AdapterFrame

NextAdapter ==
    \/ NetflixFetch \/ NetflixParse
    \/ FlixStart \/ FlixLoad \/ FlixTab \/ FlixWait \/ FlixQuit \/ FlixParse

SpecAdapter == InitAdapter /\ [][NextAdapter]_vars

----------------------------------------------------------------------------
(* The service: runs started by the scheduler, by requests and by the menu *)

InitService ==
    /\ PipelineIdle
    /\ YearOff
    /\ AdapterOff
    /\ JobOff
    /\ AuthOff
    /\ MoreOff
    /\ mode \in {"web", "cli"}
    /\ heap \in {<<v>> : v \in SettingsValues}
    /\ service_config = 1
    /\ tasks = [s \in Slots |-> NoTask]
    /\ http_session = NoSession
    /\ run_all = ""

ServiceFrame ==
    UNCHANGED <<mode, pipeline_vars, year_vars, adapter_vars, job_vars,
                auth_vars, more_vars>>

FreeSlot == {s \in Slots : tasks[s].pos = "" /\
                           \A r \in 1..(s - 1) : tasks[r].pos # ""}

\* scheduler.py:63-73 and worker.py:52-82: job_wrapper hands self.config to
\* process_media_list, which reads its keys and awaits the library listing
StartRun(k, o) ==
    /\ FreeSlot # {}
    /\ LET s == CHOOSE f \in FreeSlot : TRUE IN
         /\ http_session' = get_session(http_session)
         /\ tasks' = [tasks EXCEPT ![s] =
                [key |-> k, origin |-> o, cfg |-> service_config,
                 used |-> {heap[service_config]},
                 pos |-> "Listing", sess |-> http_session'.made,
                 cut |-> FALSE]]
    /\ UNCHANGED <<heap, service_config, run_all>>
    /\ ServiceFrame

\* scheduler.py:27-32 and :87-93: a cron trigger fires the job; the
\* scheduler is given no max_instances, so it skips a firing while an
\* instance it started of the same job is still running
CronFire ==
    /\ mode = "web"
    /\ \E k \in JobKeys :
         /\ \A s \in Slots :
               ~(Active(tasks[s]) /\ tasks[s].origin = "cron"
                                 /\ tasks[s].key = k)
         /\ StartRun(k, "cron")

\* app.py:214-221 and scheduler.py:109-112: the request queues run_job_now
\* as a background task, which builds the job function and awaits it
RunJobNow ==
    /\ mode = "web"
    /\ \E k \in JobKeys : StartRun(k, "now")

\* worker.py:174-197: the menu runs one job to its end with asyncio.run
CliRun ==
    /\ mode = "cli"
    /\ \A s \in Slots : ~Active(tasks[s])
    /\ \E k \in JobKeys : StartRun(k, "cli")

\* The awaited request of a run ends and the run goes on: it reads its
\* dictionary (worker.py:92, radarr.py:48-58, sonarr.py) and either sends
\* the next request through AsyncClient or ends; the wrapper of the menu
\* then closes the session
Advance ==
    \E s \in Slots :
      LET t == tasks[s]
          np == next_pos(t.pos)
          here == [t EXCEPT
                     !.cut = t.cut \/ ~http_session.live
                                   \/ http_session.made # t.sess,
                     !.used = t.used \cup {heap[t.cfg]},
                     !.pos = np]
      IN
      /\ Active(t)
      /\ IF np = "Done"
         THEN /\ http_session' = IF closes_session(mode)
                                 THEN close(http_session)
                                 ELSE http_session
              /\ tasks' = [tasks EXCEPT ![s] = Ended(here)]
         ELSE /\ http_session' = get_session(http_session)
              /\ tasks' = [tasks EXCEPT ![s] =
                                [here EXCEPT !.sess = http_session'.made]]
      /\ UNCHANGED <<heap, service_config, run_all>>
      /\ ServiceFrame

\* app.py:189-208: POST /api/settings
UpdateSettings ==
    /\ mode = "web"
    /\ Len(heap) <= MaxUpdates
    /\ \E v \in SettingsValues :
         LET u == update_settings(heap, service_config, v) IN
         /\ heap' = u.heap
         /\ service_config' = u.config
    /\ UNCHANGED <<tasks, http_session, run_all>>
    /\ ServiceFrame

\* app.py:223-230: POST /api/run-all reads the attribute
\* run_all_jobs_sequentially of the scheduler service, which the class
\* (scheduler.py:15-112) does not define: the handler raises and the
\* request is answered with an error, no run is started
RunAll ==
    /\ mode = "web"
    /\ run_all = ""
    /\ run_all' = "error"
    /\ UNCHANGED <<heap, service_config, tasks, http_session>>
    /\ ServiceFrame

NextService ==
    \/ CronFire \/ RunJobNow \/ CliRun \/ Advance \/ UpdateSettings \/ RunAll

SpecService == InitService /\ [][NextService]_vars

----------------------------------------------------------------------------
(* One job key, for every key string *)

InitJob ==
    /\ PipelineIdle
    /\ YearOff
    /\ AdapterOff
    /\ ServiceOff
    /\ AuthOff
    /\ MoreOff
    /\ job_key \in JobKeyStrings
    /\ job_pc = "key"
    /\ job_func = NoFunc
    /\ invocation = NoInvocation

JobFrame ==
    UNCHANGED <<job_key, pipeline_vars, year_vars, adapter_vars, service_vars,
                auth_vars, more_vars>>

\* scheduler.py:32 and :111
CreateJobFunc ==
    /\ job_pc = "key"
    /\ job_func' = _create_job_func(job_key)
    /\ job_pc' = "created"
    /\ UNCHANGED invocation
    /\ JobFrame

\* The scheduler calls the job function at a cron firing; job_wrapper
\* calls the pipeline, lambda: None does nothing
FireJob ==
    /\ job_pc = "created"
    /\ job_pc' = "invoked"
    /\ invocation' = IF job_func.wrapper THEN job_wrapper(job_func)
                      ELSE NoInvocation
    /\ UNCHANGED job_func
    /\ JobFrame

\* scheduler.py:112: run_job_now awaits the result of the function; the
\* None that lambda: None returns cannot be awaited
AwaitJob ==
    /\ job_pc = "created"
    /\ IF job_func.wrapper
       THEN job_pc' = "invoked" /\ invocation' = job_wrapper(job_func)
       ELSE job_pc' = "raised" /\ invocation' = NoInvocation
    /\ UNCHANGED job_func
    /\ JobFrame

NextJob == CreateJobFunc \/ FireJob \/ AwaitJob

SpecJob == InitJob /\ [][NextJob]_vars

----------------------------------------------------------------------------
(* Requests to the server: the login guard and the settings file *)

AuthFrame ==
    UNCHANGED <<environ, pipeline_vars, year_vars, adapter_vars, service_vars,
                job_vars, more_vars>>

\* app.py:145-151: the server has started on some file and environment
Started ==
    /\ PipelineIdle
    /\ YearOff
    /\ AdapterOff
    /\ ServiceOff
    /\ JobOff
    /\ MoreOff
    /\ app_config = load_settings(settings_file, environ)
    /\ entered = [tmdb_api_key |-> {settings_file.tmdb_api_key},
                  enabled |-> {settings_file.enabled},
                  password |-> settings_file.password.of]
    /\ LOGIN_ATTEMPTS = [ip \in IPs |-> <<>>]
    /\ now = 0
    /\ response = NoResponse

\* app.py:210-212: a request to an endpoint that only reads, such as
\* GET /api/platforms, behind check_auth
GetPlatforms ==
    \E ip \in IPs, credentials \in Credentials :
      LET r == check_auth(ip, credentials) IN
      /\ LOGIN_ATTEMPTS' = [LOGIN_ATTEMPTS EXCEPT ![ip] = r.attempts]
      /\ app_config' = r.config
      /\ settings_file' = r.file
      /\ response' = [endpoint |-> "platforms", status |-> r.status,
                       credentials |-> credentials,
                       recent |-> RecentFailures(ip)]
      /\ UNCHANGED <<entered, now>>
      /\ AuthFrame

\* app.py:189-208 behind check_auth: the posted values are saved, with a
\* plaintext password hashed, and the global config is loaded anew
PostSettings ==
    \E ip \in IPs, credentials \in Credentials :
      LET r == check_auth(ip, credentials) IN
      /\ LOGIN_ATTEMPTS' = [LOGIN_ATTEMPTS EXCEPT ![ip] = r.attempts]
      /\ response' = [endpoint |-> "settings", status |-> r.status,
                       credentials |-> credentials,
                       recent |-> RecentFailures(ip)]
      /\ IF r.status = 200
         THEN \E key \in ApiKeys, enabled \in BOOLEAN,
                 password \in {Plain("secret"), Plain("changed"),
                               hash_password("secret")} :
                LET new_settings ==
                      [tmdb_api_key |-> key, enabled |-> enabled,
                       password |-> IF needs_rehash(password)
                                    THEN hash_password(password.of)
                                    ELSE password]
                IN /\ settings_file' = save_settings(new_settings)
                   /\ app_config' = load_settings(settings_file', environ)
                   /\ entered' =
                        [tmdb_api_key |-> entered.tmdb_api_key \cup {key},
                         enabled |-> entered.enabled \cup {enabled},
                         password |-> password.of]
         ELSE /\ settings_file' = r.file
              /\ app_config' = r.config
              /\ entered' = entered
      /\ UNCHANGED now
      /\ AuthFrame

\* Time passes
Tick ==
    /\ now < MaxTicks * TickMinutes
    /\ now' = now + TickMinutes
    /\ UNCHANGED <<settings_file, app_config, entered, LOGIN_ATTEMPTS,
                   response>>
    /\ AuthFrame

\* Every settings file and environment, at one moment
InitSettings ==
    /\ settings_file \in SettingsFiles
    /\ environ \in Environs
    /\ Started

NextSettings == GetPlatforms \/ PostSettings

SpecSettings == InitSettings /\ [][NextSettings]_vars

\* Logins over time, with the credentials of the settings file
InitLogin ==
    /\ settings_file \in {f \in SettingsFiles : f.tmdb_api_key = ""}
    /\ environ = NoEnviron
    /\ Started

NextLogin == GetPlatforms \/ Tick

SpecLogin == InitLogin /\ [][NextLogin]_vars

----------------------------------------------------------------------------
(* The scheduler over a changing configuration *)

SchedFrame ==
    UNCHANGED <<pipeline_vars, year_vars, adapter_vars, service_vars,
                job_vars, auth_vars, conc_vars, race_vars, log_vars>>

InitSched ==
    /\ PipelineIdle
    /\ YearOff
    /\ AdapterOff
    /\ ServiceOff
    /\ JobOff
    /\ AuthOff
    /\ ConcOff
    /\ RaceOff
    /\ LogOff
    /\ \E first \in JobConfigs(JobOrder[1]), second \in JobConfigs(JobOrder[2]) :
         jobs_config = [k \in JobKeys |-> IF k = JobOrder[1] THEN first
                                          ELSE second]
    /\ scheduled = <<>>
    /\ setups = 0

\* scheduler.py:16-19: the constructor sets the jobs up
Construct ==
    /\ setups = 0
    /\ scheduled' = _setup_jobs(jobs_config, scheduled)
    /\ setups' = 1
    /\ UNCHANGED jobs_config
    /\ SchedFrame

\* app.py:200-206 and scheduler.py:36-39: the configuration is replaced
\* and reload_jobs sets the jobs up again
ReloadJobs ==
    /\ setups \in 1..(MaxSetups - 1)
    /\ \E k \in JobKeys : \E c \in SavedConfigs(k) :
         /\ jobs_config' = [jobs_config EXCEPT ![k] = c]
         /\ scheduled' = _setup_jobs(jobs_config', scheduled)
    /\ setups' = setups + 1
    /\ SchedFrame

NextSched == Construct \/ ReloadJobs

SpecSched == InitSched /\ [][NextSched]_vars

----------------------------------------------------------------------------
(* Two runs of different job keys on one target *)

ConcFrame ==
    UNCHANGED <<shared_type, pipeline_vars, year_vars, adapter_vars,
                service_vars, job_vars, auth_vars, sched_vars, race_vars,
                log_vars>>

InitConc ==
    /\ PipelineIdle
    /\ YearOff
    /\ AdapterOff
    /\ ServiceOff
    /\ JobOff
    /\ AuthOff
    /\ SchedOff
    /\ RaceOff
    /\ LogOff
    /\ job_runs = [p \in RunPlatforms |-> NoRun]
    /\ target_library \in InitialLibraries
    /\ successes = [i \in Ids |-> 0]
    /\ last_step = NoStep
    /\ shared_type \in {"movie", "series"}

\* worker.py:81-100: steps 2 and 3 of a run, the listing of the target and
\* the scraping, which leaves up to MaxList titles to resolve
FetchExisting(p) ==
    /\ job_runs[p].pc = "Idle"
    /\ \E resp \in ListResponses, n \in 0..MaxList :
         LET got == IF shared_type = "movie"
                    THEN radarr_lookup_existing(resp, target_library)
                    ELSE sonarr_lookup_existing(resp, target_library)
         IN job_runs' = [job_runs EXCEPT ![p] =
                [pc |-> IF got.exc THEN "Raised"
                        ELSE IF n = 0 THEN "Done" ELSE "Resolving",
                 existing |-> got.ids,
                 listed |-> got.listed,
                 left |-> IF got.exc THEN 0 ELSE n,
                 added |-> 0]]
    /\ UNCHANGED <<target_library, successes, last_step>>
    /\ ConcFrame

\* worker.py:104-142: one iteration of the loop over all_titles in the run
\* of platform p
ResolveTitle(p) ==
    /\ job_runs[p].pc = "Resolving"
    /\ \E r \in OutcomeTable[job_runs[p].existing, shared_type, "tmdb-key"] :
         /\ job_runs' = [job_runs EXCEPT ![p] =
                [pc |-> IF r.exc THEN "Raised"
                        ELSE IF @.left = 1 THEN "Done" ELSE "Resolving",
                 existing |-> index_after_add(@.existing, r.target, r.ok),
                 listed |-> @.listed,
                 left |-> @.left - 1,
                 added |-> IF r.ok THEN @.added + 1 ELSE @.added]]
         /\ target_library' = IF r.ok THEN target_library \cup {r.target}
                              ELSE target_library
         /\ successes' = IF r.ok THEN [successes EXCEPT ![r.target] = @ + 1]
                         ELSE successes
         /\ last_step' = r.disp
    /\ ConcFrame

NextConc == \E p \in RunPlatforms : FetchExisting(p) \/ ResolveTitle(p)

SpecConc == InitConc /\ [][NextConc]_vars

----------------------------------------------------------------------------
(* Requests of one IP inside check_auth at the same time *)

InitRace ==
    /\ settings_file \in {f \in SettingsFiles :
                             f.enabled /\ f.tmdb_api_key = ""}
    /\ environ = NoEnviron
    /\ Started

\* app.py:93-103: a request enters check_auth in the thread w and passes
\* or fails the lock check
LockCheck(w) ==
    /\ in_flight[w] = ""
    /\ app_config.enabled
    /\ \E ip \in IPs :
         LET l == is_ip_locked(LOGIN_ATTEMPTS[ip], now) IN
         /\ LOGIN_ATTEMPTS' = [LOGIN_ATTEMPTS EXCEPT ![ip] = l.attempts]
         /\ in_flight' = [in_flight EXCEPT ![w] = IF l.locked THEN "" ELSE ip]
         /\ response' = IF l.locked
                        THEN [endpoint |-> "platforms", status |-> 429,
                              credentials |-> NoCredentials,
                              recent |-> Len(l.attempts)]
                        ELSE response
    /\ UNCHANGED <<settings_file, app_config, entered, now, remaining>>
    /\ UNCHANGED <<environ, pipeline_vars, year_vars, adapter_vars,
                   service_vars, job_vars, sched_vars, conc_vars, log_vars>>

\* app.py:104-142: the request in the thread w has its credentials
\* compared; a failure is appended to the record of the IP as it is now
\* and the attempts remaining are logged
CompareCredentials(w) ==
    /\ in_flight[w] # ""
    /\ \E credentials \in Credentials :
         LET ip == in_flight[w]
             r == check_credentials(LOGIN_ATTEMPTS[ip], credentials)
         IN /\ LOGIN_ATTEMPTS' = [LOGIN_ATTEMPTS EXCEPT ![ip] = r.attempts]
            /\ app_config' = r.config
            /\ settings_file' = r.file
            /\ remaining' = IF Len(r.attempts) > Len(LOGIN_ATTEMPTS[ip])
                            THEN MAX_FAILED_ATTEMPTS - Len(r.attempts)
                            ELSE remaining
            /\ response' = [endpoint |-> "platforms", status |-> r.status,
                             credentials |-> credentials,
                             recent |-> Len(LOGIN_ATTEMPTS[ip])]
    /\ in_flight' = [in_flight EXCEPT ![w] = ""]
    /\ UNCHANGED <<entered, now>>
    /\ UNCHANGED <<environ, pipeline_vars, year_vars, adapter_vars,
                   service_vars, job_vars, sched_vars, conc_vars, log_vars>>

NextRace ==
    \/ \E w \in Workers : LockCheck(w) \/ CompareCredentials(w)
    \/ Tick

SpecRace == InitRace /\ [][NextRace]_vars

----------------------------------------------------------------------------
(* The log buffer of the dashboard *)

LogFrame ==
    UNCHANGED <<pipeline_vars, year_vars, adapter_vars, service_vars,
                job_vars, auth_vars, sched_vars, conc_vars, race_vars>>

InitLog ==
    /\ PipelineIdle
    /\ YearOff
    /\ AdapterOff
    /\ ServiceOff
    /\ JobOff
    /\ AuthOff
    /\ SchedOff
    /\ ConcOff
    /\ RaceOff
    /\ LogOff

\* app.py:41-46: a call of web_logger, by menu.log, log_warn or log_error
WebLogger ==
    /\ logged < MaxLogs
    /\ logged' = logged + 1
    /\ LOG_BUFFER' = web_logger(LOG_BUFFER, logged')
    /\ UNCHANGED cleared_at
    /\ LogFrame

\* app.py:176-179: POST /api/logs/clear, let through by check_auth
ClearLogs ==
    /\ LOG_BUFFER' = <<>>
    /\ cleared_at' = logged
    /\ UNCHANGED logged
    /\ LogFrame

NextLog == WebLogger \/ ClearLogs

SpecLog == InitLog /\ [][NextLog]_vars

----------------------------------------------------------------------------
(* Properties of a run *)

Processed == last.disp # "new"

Calls == Range(last.trace)

Held(titles_held) == {t \in Titles : titles_held[t] > 0}

\* A key the run requires is empty (worker.py:72, :77)
KeyMissing ==
    \/ config.general.tmdb_api_key = ""
    \/ media_type = "movie" /\ config.radarr.api_key = ""
    \/ media_type = "series" /\ config.sonarr.api_key = ""

\* C1: with an empty metadata key or an empty key of the relevant target the
\* run returns from step 1 and makes no network call of any kind
C1_AbortBeforeNetwork ==
    (run > 0 /\ KeyMissing) =>
        /\ pc = "Returned"
        /\ net = NoCalls
        /\ called = {}
        /\ added_count = 0

\* C1 witness: a run returned because only the key of its target is empty
C1_Witness ==
    /\ pc = "Returned"
    /\ config.general.tmdb_api_key # ""
    /\ target_cfg(config, media_type).api_key = ""

\* C2: a title whose target id (tmdb id for movies, tvdb id for series) is a
\* key of the index built by the listing is skipped: no lookup and no add
\* call is made for it
C2_ExistingIsSkipped ==
    (Processed /\ last.target # 0 /\ last.target \in index0) =>
        /\ last.disp = "skipped"
        /\ "post" \notin Calls
        /\ "lookup" \notin Calls

\* C2 witness: a title resolved to an id of the listing and was skipped
C2_Witness ==
    /\ last.disp = "skipped"
    /\ last.target \in index0
    /\ listed

C4_OneSearchPerTitle ==
    /\ \A t \in Titles : all_titles[t] <= 1
    /\ pc \in {"Resolving", "Done"} =>
          net.search + pending = Cardinality(Held(all_titles))

\* C4 witness: two adapter calls returned four entries in all (MaxList
\* each), three distinct titles were held and three searches were made
C4_Witness ==
    /\ pc = "Done"
    /\ net.adapter = 2
    /\ Cardinality(Held(all_titles)) = 3
    /\ net.search = 3

\* C5: a failing adapter call for one country does not end the run: the
\* run is never left by an exception of the adapter
C5_AdapterFailureIsolated ==
    exc = "scrape" => pc # "Raised"

\* C6: a run that passed the checks of step 1 ends only at Done, whatever
\* the external calls answer
C6_RunEndsAtDone ==
    pc # "Raised"

\* C7: a series title found by the search whose cross-reference lookup
\* gives no id is unmatched, and no target call is made for it
C7_NoTvdbNoTargetCall ==
    (media_type = "series" /\ Processed /\ last.xref = "none") =>
        /\ last.disp = "unmatched"
        /\ last.trace = <<"search", "xref">>

\* C7 witness: a series title was found and its cross-reference was missing
C7_Witness ==
    /\ media_type = "series"
    /\ last.tmdb # 0
    /\ last.xref = "none"
    /\ last.disp = "unmatched"

C9_AddedOnce ==
    \A i \in Ids :
        /\ added_ids[i] <= 1
        /\ added_ids[i] > 0 => i \in existing_ids

\* C9 witness: a later title resolved to an id added earlier in the run and
\* was skipped
C9_Witness ==
    /\ last.disp = "skipped"
    /\ last.target \notin index0
    /\ added_ids[last.target] = 1

\* The index as the latest iteration found it
IndexAtCheck ==
    IF last.disp = "added" THEN existing_ids \ {last.target} ELSE existing_ids

\* C10 as stated: a series title whose tmdb id is a key of the index is
\* skipped before any cross-reference lookup
C10_SeriesCheckedUnderTmdbId ==
    (media_type = "series" /\ Processed /\ last.tmdb # 0
        /\ last.tmdb \in index0) =>
        /\ last.disp = "skipped"
        /\ "xref" \notin Calls

\* C10 amended: for a series title the index is checked once, under the
\* tvdb id and after the cross-reference lookup; the tmdb id is not
\* compared; a hit is a skip without lookup or add
C10_SeriesCheckedUnderTvdbId ==
    (media_type = "series" /\ Processed /\ last.tmdb # 0) =>
        /\ "xref" \in Calls
        /\ last.disp = "skipped" <=>
              (last.target # 0 /\ last.target \in IndexAtCheck)
        /\ last.disp = "skipped" => last.trace = <<"search", "xref">>

\* C10 witness: a series whose tmdb id is a key of the index was added
\* under a tvdb id that is not
C10_Witness ==
    /\ media_type = "series"
    /\ last.tmdb \in index0
    /\ last.target \notin index0
    /\ last.disp = "added"

\* The first four characters of the release date are decimal digits
FourDigits ==
    /\ release_date.kind = "str"
    /\ Len(release_date.chars) >= 4
    /\ \A i \in 1..4 : release_date.chars[i] \in DOMAIN Decimal

\* The number the first four characters of the release date spell
FourDigitNumber ==
    LET d(i) == Decimal[release_date.chars[i]]
    IN 1000 * d(1) + 100 * d(2) + 10 * d(3) + d(4)

\* The release date is absent or shorter than four characters
ShortOrAbsent ==
    \/ release_date.kind = "missing"
    \/ release_date.kind = "str" /\ Len(release_date.chars) < 4

\* C11: four leading digits give the year and the payload carries it; a
\* computed year of 0 gives a payload without a year field; a release date
\* that is absent or shorter than four characters never raises
C11_YearFromReleaseDate ==
    /\ (year_pc = "built" /\ FourDigits) =>
          /\ year = FourDigitNumber
          /\ year > 0 => ("year" \in DOMAIN payload /\ payload.year = year)
    /\ (year_pc = "built" /\ year = 0) => "year" \notin DOMAIN payload
    /\ ShortOrAbsent => year_pc # "raised"

C13_NoRetry ==
    /\ net.adapter <= Len(countries)
    /\ net.adapter <= ci
    /\ net.search + pending <= Total(all_titles)
    /\ net.search <= Cardinality(Held(all_titles))
    /\ \A k \in {"search", "xref", "lookup", "post"} :
          Count(last.trace, k) <= 1

\* C13 witness: a run completed whose latest add call failed, after one
\* adapter call per country and one search per title
C13_Witness ==
    /\ pc = "Done"
    /\ last.disp = "failed"
    /\ "post" \in Calls
    /\ net.adapter = Len(countries)
    /\ net.search = Cardinality(Held(all_titles))
    /\ net.search = 3

\* The calls made so far fit the stage the run is in: no adapter call
\* before the listing has answered, no search before the adapter was called
\* for every country, the loop over titles only after that
StagesInOrder ==
    /\ pc \in {"Idle", "Returned", "FetchingLibrary"} =>
          net = NoCalls /\ called = {}
    /\ net.adapter > 0 => net.list = 1
    /\ pc = "Scraping" =>
          net.list = 1 /\ net.search = 0 /\ called = {} /\ ci <= Len(countries)
    /\ (net.search > 0 \/ called # {}) => net.adapter = Len(countries)
    /\ pc = "Resolving" => net.adapter = Len(countries) /\ pending > 0
    /\ pc = "Done" => net.adapter = Len(countries) /\ pending = 0

\* C14: the stages are passed in the order Validating, FetchingLibrary,
\* Scraping, Resolving&Submitting, Done, and a run ends only at the failed
\* check of Validating or at Done
C14_StagesThenDone ==
    /\ StagesInOrder
    /\ pc \in {"Idle", "Returned", "FetchingLibrary", "Scraping",
               "Resolving", "Done"}

\* C15: a run that passed the checks lists the library exactly once, on the
\* target of its media type; the listing is not repeated later in the run
\* and the other target gets no request of any kind
C15_ListedOnceRelevantOnly ==
    /\ net.list <= 1
    /\ pc \in {"Scraping", "Resolving", "Done"} => net.list = 1
    /\ net.list = 1 => contacted # {}
    /\ media_type = "movie" => contacted \subseteq {"radarr"}
    /\ media_type = "series" => contacted \subseteq {"sonarr"}

\* C15 witness: a series run listed once, added a series and completed, and
\* only the series target was contacted
C15_Witness ==
    /\ pc = "Done"
    /\ media_type = "series"
    /\ net.list = 1
    /\ added_count > 0
    /\ contacted = {"sonarr"}

\* C16: a search or a cross-reference lookup that failed or answered with
\* a malformed body gives no match: the title is unmatched and the run goes
\* on, it is never left by an exception at the match
C16_ResolverFailsSoft ==
    /\ exc # "match"
    /\ (Processed /\ last.tmdb = 0) => last.disp = "unmatched"
    /\ (Processed /\ last.xref = "none") => last.disp = "unmatched"

\* C17: an add call succeeds exactly when the answer to its POST carries an
\* id; without an answer or without an id it fails without raising, and
\* then the added count and the index are left as they were
C17_AddSucceedsIffId ==
    /\ "post" \in Calls =>
          /\ last.disp \in {"added", "failed"}
          /\ last.disp = "added" <=> last.post = "id"
    /\ last.disp = "added" =>
          last.target \in existing_ids /\ added_count > 0
    /\ last.disp = "failed" =>
          /\ last.target \notin existing_ids
          /\ added_ids[last.target] = 0

\* The country code is in the fixed table of the adapter that is called
Supported ==
    IF adapter = "netflix" THEN Upper[country_code] \in {"US", "DE", "FI"}
    ELSE Upper[country_code] \in {"US", "DE"}

\* C18 as stated: for both adapters a country code outside the table is
\* rejected at once: no fetch, no browser session, an empty result
C18_UnsupportedRejected ==
    ~Supported =>
        /\ fetches = 0
        /\ driver = "none"
        /\ a_result = <<>>

\* C18 amended: the browser adapter rejects a code outside its table at
\* once, with no fetch, no session and an empty result; the static-HTML
\* adapter rejects nothing: it fetches the page under the lower-case code
C18_OnlyBrowserAdapterRejects ==
    /\ (adapter = "flixpatrol" /\ ~Supported) =>
          /\ fetches = 0
          /\ driver = "none"
          /\ a_result = <<>>
          /\ a_pc \in {"call", "fetched", "returned"}
    /\ (adapter = "netflix" /\ ~Supported /\ a_pc # "call") =>
          /\ fetches = 1
          /\ slug = Lower[country_code]

\* C18 witness: the browser adapter returned for a code that only the
\* table of the other adapter holds
C18_Witness ==
    /\ adapter = "flixpatrol"
    /\ country_code = "FI"
    /\ a_pc = "returned"
    /\ "unsupported" \in seen
    /\ a_result = <<>>

\* The not-found conditions after which the fetch hands back nothing
NothingFetched ==
    {"unsupported", "404", "transport", "empty", "no_container",
     "start_failed", "load_failed"}

\* C19 as stated: after a missing page, an empty fetch, a missing tab or
\* container, or lists without a title, the adapter does not raise and
\* returns an empty sequence
C19_NotFoundGivesEmpty ==
    /\ a_pc = "raised" => seen \cap {"quit_failed", "bad_body"} # {}
    /\ (a_pc = "returned" /\ seen \cap (NothingFetched \cup {"no_tab"}) # {})
          => a_result = <<>>

\* C19 amended: the adapter raises only when driver.quit raised or the
\* body was no string; after a missing page, an empty or failed fetch or a
\* missing container it returns an empty sequence, as it does when no list
\* or card yields a title; a missing tab alone is no failure: the default
\* view is parsed and its titles are returned
C19_NotFoundNeverRaises ==
    /\ a_pc = "raised" => seen \cap {"quit_failed", "bad_body"} # {}
    /\ (a_pc = "returned" /\ seen \cap NothingFetched # {}) =>
          a_result = <<>>
    /\ (a_pc = "returned" /\ html.kind = "netflix"
          /\ \A k \in 1..Len(html.body) : html.body[k] = <<>>) =>
          a_result = <<>>
    /\ (a_pc = "returned" /\ html.kind = "flixpatrol"
          /\ \A k \in 1..Len(html.body) : html.body[k].titles = <<>>) =>
          a_result = <<>>

\* C19 witness: the browser adapter returned an empty sequence after the
\* wait for the content container timed out
C19_Witness ==
    /\ adapter = "flixpatrol"
    /\ a_pc = "returned"
    /\ "no_container" \in seen
    /\ a_result = <<>>

\* C20: when the fetch of the browser adapter has ended, by return or by
\* exception, no browser session is left open
C20_SessionTornDown ==
    a_pc \in {"fetched", "returned", "raised"} => driver # "open"

\* C20 witness: a session was started, the page was not found, and the
\* session was quit before the fetch returned
C20_Witness ==
    /\ a_pc = "fetched"
    /\ driver = "quit"
    /\ "404" \in seen
    /\ html = NoHtml

\* The call went through the content wait of flixpatrol.py:94
ContentWaitReached == "no_container" \in seen \/ html.kind = "flixpatrol"

\* C21 as stated: a wait that times out never makes the adapter raise; after
\* a timeout of the tab wait the call always goes on to the content wait;
\* after a timeout of the content wait the adapter returns no title
C21_TimeoutsAreAbsence ==
    /\ a_pc = "raised" => seen \cap {"quit_failed", "bad_body"} # {}
    /\ ("no_tab" \in seen /\ a_pc \in {"finally", "fetched", "returned"})
          => ContentWaitReached
    /\ ("no_container" \in seen /\ a_pc = "returned") => a_result = <<>>

\* C21 amended: after a timeout of the tab wait the call goes on to the
\* content wait unless the title then reads "404 Not Found" or cannot be
\* read, and in those two cases the adapter returns no title; after a
\* timeout of the content wait the adapter returns no title; only a failing
\* driver.quit() makes the browser adapter raise
C21_TimeoutsNeverRaise ==
    /\ (adapter = "flixpatrol" /\ a_pc = "raised") => "quit_failed" \in seen
    /\ ("no_tab" \in seen /\ a_pc \in {"finally", "fetched", "returned"})
          => IF seen \cap {"404", "load_failed"} = {}
             THEN ContentWaitReached
             ELSE ~ContentWaitReached /\ html = NoHtml
    /\ ("no_tab" \in seen /\ a_pc = "tabbed")
          => seen \cap {"404", "load_failed"} = {}
    /\ (seen \cap {"no_container", "404", "load_failed"} # {}
          /\ a_pc = "returned") => a_result = <<>>

\* The tab wait timed out and the default view gave titles
C21_Witness ==
    /\ a_pc = "returned"
    /\ "no_tab" \in seen
    /\ a_result # <<>>

\* The non-empty labels of a list container, in its order
Labels(ul) ==
    LET IsLabel(t) == t \notin {"", " "}
        Text(t) == IF t = " Beta " THEN "Beta" ELSE t
        kept == SelectSeq(ul, IsLabel)
    IN [i \in 1..Len(kept) |-> Text(kept[i])]

\* A page of the static-HTML adapter has been parsed
Parsed == adapter = "netflix" /\ a_pc = "returned" /\ html.kind = "netflix"

\* C25: the parser returns the labels of a container with the most
\* non-empty labels, in its order; of several such containers the first;
\* and nothing when no container has a non-empty label
C25_MostLabelsFirstWins ==
    Parsed =>
      LET uls == html.body IN
      IF \A k \in 1..Len(uls) : Labels(uls[k]) = <<>>
      THEN a_result = <<>>
      ELSE \E k \in 1..Len(uls) :
             /\ a_result = Labels(uls[k])
             /\ a_result # <<>>
             /\ \A j \in 1..Len(uls) :
                   Len(Labels(uls[j])) <= Len(a_result)
             /\ \A j \in 1..(k - 1) :
                   Len(Labels(uls[j])) < Len(a_result)

\* Two containers with different labels tie for the highest count, and
\* the labels of the first were returned
C25_Witness ==
    /\ Parsed
    /\ Len(html.body) = 2
    /\ Len(Labels(html.body[1])) = Len(Labels(html.body[2]))
    /\ Labels(html.body[1]) # Labels(html.body[2])
    /\ a_result = Labels(html.body[1])
    /\ Len(html.body[1]) > Len(a_result)

\* C22: every step of a run reads the settings values its first step read,
\* also when the settings were updated while it was in flight
C22_ConfigSnapshot ==
    \A s \in Slots : tasks[s].pos # "" => Cardinality(tasks[s].used) = 1

\* A run holds a dictionary the service has replaced by one with other
\* values, and two requests later all it has read is the values of its own
C22_Witness ==
    \E s \in Slots :
        /\ tasks[s].pos = "Submitting"
        /\ tasks[s].used = {heap[tasks[s].cfg]}
        /\ heap[service_config] \notin tasks[s].used

\* C23: no two runs of the same job key are in flight at the same time
C23_OneRunPerJobKey ==
    \A s1, s2 \in Slots :
        (s1 # s2 /\ Active(tasks[s1]) /\ Active(tasks[s2]))
            => tasks[s1].key # tasks[s2].key

\* C24: no request of a run loses the session to another run: while a run
\* awaits a request the session it sent it on is the live one, and no run
\* has had a request cut
C24_SessionShared ==
    \A s \in Slots :
        /\ ~tasks[s].cut
        /\ Active(tasks[s])
              => http_session.live /\ http_session.made = tasks[s].sess

\* Runs of two job keys are in flight on the same session, both at their
\* last request
C24_Witness ==
    /\ mode = "web"
    /\ tasks[1].pos = "Submitting"
    /\ tasks[2].pos = "Submitting"
    /\ tasks[1].key # tasks[2].key
    /\ tasks[1].sess = tasks[2].sess

\* C28: a run-all request is accepted and the runs it starts do not overlap
C28_RunAllSequential ==
    run_all # "" =>
        /\ run_all = "success"
        /\ \A s1, s2 \in Slots :
              (s1 # s2 /\ tasks[s1].origin = "all" /\ tasks[s2].origin = "all")
                  => ~(Active(tasks[s1]) /\ Active(tasks[s2]))

\* The job function of the key has been called
JobCalled == job_pc \in {"invoked", "raised"}

\* The key has no "_", or what stands before its first "_" is no platform id
NoPlatform ==
    \/ \A i \in 1..Len(job_key) : job_key[i] # "_"
    \/ \E i \in 1..Len(job_key) :
          /\ job_key[i] = "_"
          /\ \A j \in 1..(i - 1) : job_key[j] # "_"
          /\ SubSeq(job_key, 1, i - 1) \notin {<<"netflix">>, <<"amazon">>}

\* C26: a key "<platform>_movies" gives one call of the pipeline for movies
\* against the movie target, "<platform>_series" one for series against the
\* series target; netflix is scraped by the Netflix adapter and any other
\* platform of the table by the FlixPatrol adapter under its slug; a key
\* without "_" or with an unknown platform gives no call at all
C26_JobKeyMapping ==
    JobCalled =>
      /\ \A p \in {"netflix", "amazon"}, k \in {"movies", "series"} :
            job_key = <<p, "_", k>> =>
              /\ job_pc = "invoked"
              /\ invocation.pipeline
              /\ invocation.media_type = (IF k = "movies" THEN "movie"
                                          ELSE "series")
              /\ invocation.target = (IF k = "movies" THEN "radarr"
                                      ELSE "sonarr")
              /\ invocation.adapter = (IF p = "netflix" THEN "netflix"
                                       ELSE "flixpatrol")
              /\ p = "amazon" => invocation.slug = "amazon-prime"
      /\ NoPlatform => ~invocation.pipeline /\ invocation.adapter = ""

\* The key amazon_series led to a series run scraped through FlixPatrol
C26_Witness ==
    /\ job_key = <<"amazon", "_", "series">>
    /\ job_pc = "invoked"
    /\ invocation = [pipeline |-> TRUE, media_type |-> "series",
                     target |-> "sonarr", adapter |-> "flixpatrol",
                     slug |-> "amazon-prime"]

\* C27: the settings file holds the environment value of an overridden key
\* only when the user has entered that value
C27_OverridesStayOutOfFile ==
    /\ (environ.MEDIATREND_TMDB_API_KEY # ""
          /\ settings_file.tmdb_api_key = environ.MEDIATREND_TMDB_API_KEY)
         => settings_file.tmdb_api_key \in entered.tmdb_api_key
    /\ (environ.MEDIATREND_AUTH_ENABLED = "true" /\ settings_file.enabled)
         => TRUE \in entered.enabled

\* The latest request found the IP with the full number of recent failures
LockedAtRequest == response.recent >= MAX_FAILED_ATTEMPTS

\* C29: with authentication on, a request from an IP with five recorded
\* failures younger than the window is answered 429 whatever credentials
\* it carries, and adds no failure to the record; with fewer the request
\* is not answered 429
C29_LockoutBeforeCredentials ==
    (app_config.enabled /\ response.status # 0) =>
        \A ip \in IPs :
            /\ LockedAtRequest =>
                  /\ response.status = 429
                  /\ Len(LOGIN_ATTEMPTS[ip]) = response.recent
            /\ ~LockedAtRequest => response.status # 429

\* A request with the right credentials was turned away with 429, and the
\* record of the IP still holds the five failures
C29_Witness ==
    /\ app_config.enabled
    /\ response.status = 429
    /\ response.credentials = [username |-> "admin", password |-> "secret"]
    /\ \E ip \in IPs : Len(LOGIN_ATTEMPTS[ip]) = MAX_FAILED_ATTEMPTS

\* C30: after a successful login the record of the IP is empty
C30_SuccessClearsRecord ==
    (app_config.enabled /\ response.status = 200) =>
        \A ip \in IPs : LOGIN_ATTEMPTS[ip] = <<>>

\* A login succeeded after four failures inside the window, and the record
\* is empty
C30_Witness ==
    /\ app_config.enabled
    /\ response.status = 200
    /\ response.recent = MAX_FAILED_ATTEMPTS - 1
    /\ \A ip \in IPs : LOGIN_ATTEMPTS[ip] = <<>>

\* C31: the stored password is the same in the global config and in the
\* file, the password the user has set verifies against it, and it is a
\* bcrypt hash after every settings update that was let through and after
\* every successful login with no password override in the environment
C31_PasswordsMigrate ==
    /\ app_config.password = settings_file.password
    /\ verify_password(entered.password, app_config.password)
    /\ (response.endpoint = "settings" /\ response.status = 200)
          => is_bcrypt_hash(settings_file.password)
    /\ (response.status = 200 /\ app_config.enabled
          /\ environ.MEDIATREND_AUTH_PASSWORD = "")
          => is_bcrypt_hash(settings_file.password)

\* A login with the password set by an update succeeded against its hash
C31_Witness ==
    /\ response.endpoint = "platforms"
    /\ response.status = 200
    /\ app_config.enabled
    /\ environ.MEDIATREND_AUTH_PASSWORD = ""
    /\ response.credentials.password = "changed"
    /\ settings_file.password = hash_password("changed")

\* A time string of the form hour:minute
ValidTime(s) ==
    \E h, m \in {<<"2">>, <<"7">>, <<"2", "2">>, <<"2", "7">>, <<"7", "2">>,
                  <<"7", "7">>} :
        /\ s = h \o <<":">> \o m
        /\ h \notin {<<"2", "7">>, <<"7", "2">>, <<"7", "7">>}
        /\ m \notin {<<"7", "2">>, <<"7", "7">>}

\* C32: once the jobs have been set up, the scheduled ids are exactly the
\* job keys of the configuration that are enabled and have a valid time,
\* each of them once
C32_ScheduledAreEnabledValid ==
    setups > 0 =>
        /\ Range(scheduled) =
              {k \in JobKeys : /\ jobs_config[k].present
                               /\ jobs_config[k].enabled
                               /\ ValidTime(jobs_config[k].time)}
        /\ \A i, j \in 1..Len(scheduled) :
              scheduled[i] = scheduled[j] => i = j

\* A reload found a job that was scheduled with an invalid time and the
\* other job still enabled: only the other job is scheduled
C32_Witness ==
    /\ setups = 2
    /\ jobs_config["netflix_movies"].enabled
    /\ jobs_config["netflix_movies"].time = <<"2", "7", ":", "2">>
    /\ scheduled = <<"amazon_series">>

\* C33: when both runs got the library of the target listed, no identifier
\* is added with success more than once across the two runs
C33_AddedOnceAcrossRuns ==
    (\A p \in RunPlatforms : job_runs[p].listed)
        => \A i \in Ids : successes[i] <= 1

\* The listing of the target failed and the run went on
FailedListing ==
    /\ ~listed
    /\ \/ pc \in {"Scraping", "Resolving", "Done"}
       \/ pc = "Raised" /\ exc # "list"

\* C34: after a failed listing the run goes on with an empty index: the
\* index holds nothing but the ids this run added, a title is skipped only
\* for an id this run added, and every other title that got its target id
\* is handed to the add call
C34_FailedListingEmptyIndex ==
    FailedListing =>
        /\ index0 = {}
        /\ existing_ids = {i \in Ids : added_ids[i] > 0}
        /\ (Processed /\ last.disp = "skipped") => added_ids[last.target] > 0
        /\ (Processed /\ last.target # 0
               /\ last.disp \notin {"skipped", "raised"})
              => /\ last.disp \in {"added", "failed"}
                 /\ Range(last.trace) \cap {"post", "lookup"} # {}

\* C34 witness: the listing of the series target failed, the library holds
\* id 1, and a title with id 1 was added
C34_Witness ==
    /\ FailedListing
    /\ media_type = "series"
    /\ lib0 = {1}
    /\ last.target = 1
    /\ last.disp = "added"

\* What a step does to the index and the added count of the run of p
IndexStep(p) ==
    LET before == job_runs[p]
        after == job_runs'[p]
    IN IF before.pc = "Idle" THEN after.pc = "Idle" \/ after.added = 0
       ELSE IF after.left # before.left /\ last_step' = "added"
       THEN /\ \E id \in Ids \ before.existing :
                 /\ after.existing = before.existing \cup {id}
                 /\ successes' = [successes EXCEPT ![id] = @ + 1]
            /\ after.added = before.added + 1
       ELSE /\ after.existing = before.existing
            /\ after.added = before.added

\* C35: the index of a run is changed by a step of that run only, and only
\* by the insertion of the id whose add call has just succeeded; a miss, a
\* skip, a missing cross-reference and a failed add leave the index and the
\* added count as they are, and so does every step of the other run
C35_IndexGrowsOnOwnSuccess ==
    [][\A p \in RunPlatforms : IndexStep(p)]_vars

\* C35 witness: one run added an id that the other run, still resolving,
\* does not have in its index, and the latest iteration was a failed add
C35_Witness ==
    /\ job_runs["netflix"].pc = "Resolving"
    /\ job_runs["netflix"].existing = {}
    /\ job_runs["amazon"].existing = {1}
    /\ job_runs["amazon"].added = 1
    /\ job_runs["amazon"].left = 0
    /\ last_step = "failed"

\* C36: no IP has more than MAX_FAILED_ATTEMPTS failures on record, and the
\* attempts remaining that a failed login logs are not negative
C36_FailuresAtMostMax ==
    /\ \A ip \in IPs : Len(LOGIN_ATTEMPTS[ip]) <= MAX_FAILED_ATTEMPTS
    /\ remaining >= 0

\* The messages logged since the latest clear_logs
SinceClear == logged - cleared_at

====
